---- MODULE Spec2Model ----
(***************************************************************************)
(* A model of the login and signature capture scripts of XHS_RS_TOOLS:     *)
(* the MongoDB store operations (scripts/xhs_playwright/storage.py) and    *)
(* the request handler of SignatureCapture                                 *)
(* (scripts/xhs_playwright/signature.py) with its tables                   *)
(* (scripts/xhs_playwright/config.py), the login detector and the status   *)
(* monitor (scripts/xhs_playwright/browser.py), the QR extraction          *)
(* (scripts/xhs_playwright/qr_code.py) and the two entry points of         *)
(* scripts/login.py.                                                       *)
(*                                                                         *)
(* Python values are modelled as follows.  A str is a TLA+ string, a dict  *)
(* is a function whose DOMAIN is the dict's key set, a list is a sequence, *)
(* and an Optional[str] is <<>> for None and <<s>> for the string s.       *)
(***************************************************************************)
EXTENDS Integers, Sequences, FiniteSets, TLC

VARIABLES
    credentials,   \* the "credentials" collection, in insertion order
    pc,            \* per run: where its save_credentials call stands
    args,          \* per run: the arguments of its save_credentials call in progress
    last_call,     \* history: the arguments of the save_credentials call that completed last
    api_signatures,\* the "api_signatures" collection, in insertion order
    last_sig,      \* history: per endpoint, the signature_data of the latest save_signature call
    x_s_common,    \* SignatureCapture.x_s_common
    signatures,    \* SignatureCapture.signatures
    observed,      \* history: the requests passed to handle_request so far, in order
    page_url,      \* browser: page.url
    avatar,        \* browser: the avatar element of the side bar: "absent", "hidden" or "visible"
    jar,           \* browser: what context.cookies() returns, a list of cookies
    close_error,   \* browser: "" while it is reachable, else the message of the error its calls raise
    qr_visible,    \* browser: whether the QR image of the login modal is visible
    latest_status, \* QrCodeStatusMonitor.latest_status
    login_info,    \* QrCodeStatusMonitor.login_info
    status_history,\* QrCodeStatusMonitor._status_history
    lpc,           \* wait_for_login_complete: where the call stands
    polls,         \* wait_for_login_complete: iterations of the poll loop started so far
    max_polls,     \* wait_for_login_complete: max_polls
    result,        \* wait_for_login_complete: result
    initial_web_session, \* wait_for_login_complete: initial_web_session
    feed_at_poll,  \* history: whether is_logged_in() held when the current poll started
    jar_at_confirm,\* history: the browser's cookies when the status became "confirmed"
    qr_src,        \* browser: the QR image element: Missing, or the value of its src attribute
    epc,           \* extract_from_page: where the call stands
    attempt,       \* extract_from_page: attempt
    eresult,       \* extract_from_page: result
    last_rejected, \* history: the candidate extract_from_page rejected last
    rpc,           \* login.py: where the run stands
    mode,          \* login.py: "login" (run_full_login) or "extract-qr" (run_extract_qr)
    nav,           \* login.py: what navigate_to_login returned: "none" before it, "ok" or "failed"
    run_result,    \* login.py: what the run returns
    capture_started, \* history: whether trigger_signature_pages has been called
    capture,       \* browser.py: the capture function in progress
    tpc,           \* browser.py: where the capture function stands
    cidx,          \* browser.py: the index of the channel or selector at hand
    waiter,        \* browser.py: the predicate page.expect_response has registered, or None
    waiter_hit,    \* browser.py: whether a response has satisfied the registered predicate
    pending,       \* browser: whether the request of the last click is still unanswered
    matched_seen,  \* history: whether the response the interaction at hand expects has arrived
    attempted,     \* history: the channels traverse_feed_channels has attempted, in order
    last_log,      \* history: what the capture function printed last: <<name, outcome>>
    outcomes,      \* history: the outcomes the capture function has printed so far
    ascii_in,      \* base64_to_ascii: the call at hand: its argument and what the libraries do
    ascii_out,     \* base64_to_ascii: what the call returned
    handler_on,    \* login.py: whether the request handler of SignatureCapture is attached to the page
    missed,        \* history: whether the page issued a request that no handler was passed
    browser_open,  \* login.py: whether the browser the run launched has not been closed by it
    observed_at_save, \* history: how many requests had been observed when save_credentials was called
    dpc,           \* client_demo.py: where the QR decoding of login_interactive stands
    denv,          \* client_demo.py: the libraries present and what each decoder does with the image
    qr_content,    \* client_demo.py: qr_content
    sidx,          \* client_demo.py: the index of the strategy at hand
    ran,           \* history: the decoders run so far, in order
    cpc,           \* client_demo.py: where login_interactive stands
    elapsed,       \* client_demo.py: time.time() - start_time, in seconds
    last_status,   \* history: what check_qrcode_status returned last
    last_capture,  \* history: what check_capture_status returned last
    entered_capture, \* history: whether the capture wait of login_interactive was entered
    demo_ret,      \* client_demo.py: what login_interactive returned, None before
    spc,           \* agent_server.py: where sync_login_cookies stands
    sync_request,  \* agent_server.py: the request of the call at hand
    driver,        \* agent_server.py: the browser driver: "none", "running", "quit" or "quit_raised"
    driver_cookies,\* agent_server.py: the cookies of the driver's browser
    sync_response  \* agent_server.py: the response the call returns, None before it is known

vars == <<credentials, pc, args, last_call, api_signatures, last_sig,
          x_s_common, signatures, observed,
          page_url, avatar, jar, close_error, qr_visible,
          latest_status, login_info, status_history,
          lpc, polls, max_polls, result, initial_web_session,
          feed_at_poll, jar_at_confirm,
          qr_src, epc, attempt, eresult, last_rejected,
          rpc, mode, nav, run_result, capture_started,
          capture, tpc, cidx, waiter, waiter_hit, pending, matched_seen,
          attempted, last_log, outcomes, ascii_in, ascii_out,
          handler_on, missed, browser_open, observed_at_save,
          dpc, denv, qr_content, sidx, ran,
          cpc, elapsed, last_status, last_capture, entered_capture, demo_ret,
          spc, sync_request, driver, driver_cookies, sync_response>>

storeVars == <<credentials, pc, args, last_call>>
sigStoreVars == <<api_signatures, last_sig>>
captureVars == <<x_s_common, signatures, observed>>
browserVars == <<page_url, avatar, jar, close_error, qr_visible>>
monitorVars == <<latest_status, login_info, status_history>>
detectorVars == <<lpc, polls, max_polls, result, initial_web_session,
                  feed_at_poll, jar_at_confirm>>
extractVars == <<qr_src, epc, attempt, eresult, last_rejected>>
sessionVars == <<browserVars, monitorVars, detectorVars, extractVars>>
runVars == <<rpc, mode, nav, run_result, capture_started>>
traverseVars == <<capture, tpc, cidx, waiter, waiter_hit, pending, matched_seen,
                  attempted, last_log, outcomes>>
asciiVars == <<ascii_in, ascii_out>>
runAuxVars == <<handler_on, missed, browser_open, observed_at_save>>
decodeVars == <<dpc, denv, qr_content, sidx, ran>>
demoVars == <<cpc, elapsed, last_status, last_capture, entered_capture, demo_ret>>
syncVars == <<spc, sync_request, driver, driver_cookies, sync_response>>
lateVars == <<decodeVars, demoVars, syncVars>>
auxVars == <<traverseVars, asciiVars, runAuxVars, lateVars>>

(***************************************************************************)
(* Python helpers                                                          *)
(***************************************************************************)

\* None and a present value of an Optional
None == <<>>
Some(s) == <<s>>

\* d.get(k, default)
Get(d, k, default) == IF k \in DOMAIN d THEN d[k] ELSE default

\* the empty dict
EmptyDict == [k \in {} |-> ""]

\* s[i], as a string of length one
Ch(s, i) == SubSeq(s, i, i)

\* p in s, for strings
Contains(s, p) ==
    \E i \in 1..(Len(s) + 1) :
        /\ i + Len(p) - 1 <= Len(s)
        /\ SubSeq(s, i, i + Len(p) - 1) = p

\* s.endswith(suf)
EndsWith(s, suf) ==
    /\ Len(s) >= Len(suf)
    /\ SubSeq(s, Len(s) - Len(suf) + 1, Len(s)) = suf

\* s.split(sep) for a separator of one character: the list of the pieces
RECURSIVE SplitFrom(_, _, _, _)
SplitFrom(s, sep, start, i) ==
    IF i > Len(s) THEN <<SubSeq(s, start, Len(s))>>
    ELSE IF Ch(s, i) = sep
         THEN <<SubSeq(s, start, i - 1)>> \o SplitFrom(s, sep, i + 1, i + 1)
         ELSE SplitFrom(s, sep, start, i + 1)

Split(s, sep) == SplitFrom(s, sep, 1, 1)

\* "".join(parts)
RECURSIVE Join(_)
Join(parts) == IF parts = <<>> THEN "" ELSE Head(parts) \o Join(Tail(parts))

(***************************************************************************)
(* storage.py: the credentials collection                                  *)
(***************************************************************************)

\* The runs that may call save_credentials against the same store.
Runs == {"run1", "run2"}

\* The most records the credentials collection holds in the model.
MaxCredentials == 3

\* Cookie dicts a login hands to save_credentials; the second lacks webId and gid.
CookieJars ==
    { ("a1" :> "A") @@ ("webId" :> "W") @@ ("gid" :> "G") @@ ("web_session" :> "S1"),
      ("a1" :> "A") @@ ("web_session" :> "S2") }

\* x_s_common arguments of save_credentials
CommonArgs == {"", "c0mm0n"}

\* storage.py line 30: the user id joined from four cookie values
UserId(cookies) ==
    Join(<<Get(cookies, "a1", ""), Get(cookies, "webId", ""),
           Get(cookies, "gid", ""), Get(cookies, "web_session", "")>>)

\* storage.py lines 33-40 with the common header left empty
CredentialDocNoCommon(cookies, xsc) ==
    [user_id |-> UserId(cookies), cookies |-> cookies, x_s_common |-> "",
     is_valid |-> TRUE]

\* storage.py lines 33-40: the document of a save (created_at and updated_at
\* hold the wall clock, which no operation reads; they are left out)
CredentialDoc(cookies, xsc) ==
    [user_id |-> UserId(cookies), cookies |-> cookies, x_s_common |-> xsc,
     is_valid |-> TRUE]

\* update_one in the place of update_many: only the first record is invalidated
UpdateOneInvalid(coll) ==
    [i \in DOMAIN coll |-> IF i = 1 THEN [coll[i] EXCEPT !.is_valid = FALSE] ELSE coll[i]]

\* collection.update_many({}, {"$set": {"is_valid": False}})
UpdateManyInvalid(coll) ==
    [i \in DOMAIN coll |-> [coll[i] EXCEPT !.is_valid = FALSE]]

\* collection.insert_one(doc)
InsertOne(coll, doc) == Append(coll, doc)

\* save_credentials up to and including update_many (storage.py lines 22-27):
\* one store operation, after which other clients of the store may run.
SaveCredentialsInvalidate(r, cookies, xsc) ==
    /\ pc[r] = "idle"
    /\ Len(credentials) + Cardinality({q \in Runs : pc[q] = "insert"}) < MaxCredentials
    /\ credentials' = UpdateManyInvalid(credentials)
    /\ args' = [args EXCEPT ![r] = <<cookies, xsc>>]
    /\ pc' = [pc EXCEPT ![r] = "insert"]
    /\ UNCHANGED <<last_call, sigStoreVars, captureVars, sessionVars>>

\* the rest of save_credentials: build the document, insert_one, return
\* (storage.py lines 29-45)
SaveCredentialsInsert(r) ==
    /\ pc[r] = "insert"
    /\ credentials' = InsertOne(credentials, CredentialDoc(args[r][1], args[r][2]))
    /\ last_call' = args[r]
    /\ args' = [args EXCEPT ![r] = <<>>]
    /\ pc' = [pc EXCEPT ![r] = "idle"]
    /\ UNCHANGED <<sigStoreVars, captureVars, sessionVars>>

\* the indexes of the records with is_valid = true
ValidRecords == {i \in DOMAIN credentials : credentials[i].is_valid}

\* config.py line 9
XHS_EXPLORE_URL == "https://www.xiaohongshu.com/explore"

\* one element of the list context.cookies() returns
Cookie(name, value) == [name |-> name, value |-> value]

\* the cookies of a fresh browser context: no web_session yet
InitialJar == <<Cookie("a1", "dev1")>>

\* the QR image element is not on the page: waiting for it times out
Missing == <<"missing", "element">>

\* no candidate has been rejected yet
NoCandidate == <<"no", "candidate">>

Init ==
    /\ credentials = <<>>
    /\ pc = [r \in Runs |-> "idle"]
    /\ args = [r \in Runs |-> <<>>]
    /\ last_call = <<>>
    /\ api_signatures = <<>>
    /\ last_sig = EmptyDict
    /\ x_s_common = ""
    /\ signatures = EmptyDict
    /\ observed = <<>>
    /\ page_url = XHS_EXPLORE_URL
    /\ avatar = "absent"
    /\ jar = InitialJar
    /\ close_error = ""
    /\ qr_visible = TRUE
    /\ latest_status = None
    /\ login_info = None
    /\ status_history = <<>>
    /\ lpc = "idle"
    /\ polls = 0
    /\ max_polls = 0
    /\ result = EmptyDict
    /\ initial_web_session = None
    /\ feed_at_poll = FALSE
    /\ jar_at_confirm = <<>>
    /\ qr_src = Missing
    /\ epc = "idle"
    /\ attempt = 0
    /\ eresult = EmptyDict
    /\ last_rejected = NoCandidate
    /\ rpc = "idle"
    /\ mode = "none"
    /\ nav = "none"
    /\ run_result = EmptyDict
    /\ capture_started = FALSE
    /\ capture = "none"
    /\ tpc = "idle"
    /\ cidx = 0
    /\ waiter = None
    /\ waiter_hit = FALSE
    /\ pending = FALSE
    /\ matched_seen = FALSE
    /\ attempted = <<>>
    /\ last_log = <<>>
    /\ outcomes = {}
    /\ ascii_in = <<>>
    /\ ascii_out = <<>>
    /\ handler_on = FALSE
    /\ missed = FALSE
    /\ browser_open = FALSE
    /\ observed_at_save = 0
    /\ dpc = "idle"
    /\ denv = <<>>
    /\ qr_content = <<>>
    /\ sidx = 0
    /\ ran = <<>>
    /\ cpc = "idle"
    /\ elapsed = 0
    /\ last_status = <<>>
    /\ last_capture = <<>>
    /\ entered_capture = FALSE
    /\ demo_ret = <<>>
    /\ spc = "idle"
    /\ sync_request = <<>>
    /\ driver = "none"
    /\ driver_cookies = <<>>
    /\ sync_response = <<>>

\* Runs whose save_credentials calls interleave at the store operations.
NextCred ==
    \/ \E r \in Runs, cookies \in CookieJars, xsc \in CommonArgs :
           SaveCredentialsInvalidate(r, cookies, xsc)
    \/ \E r \in Runs : SaveCredentialsInsert(r)

SpecCred == Init /\ [][NextCred /\ UNCHANGED <<runVars, auxVars>>]_vars

\* One writer at a time: a call starts only when no other call is in progress.
NextCredSeq ==
    \/ \E r \in Runs, cookies \in CookieJars, xsc \in CommonArgs :
           /\ \A q \in Runs : pc[q] = "idle"
           /\ SaveCredentialsInvalidate(r, cookies, xsc)
    \/ \E r \in Runs : SaveCredentialsInsert(r)

SpecCredSeq == Init /\ [][NextCredSeq /\ UNCHANGED <<runVars, auxVars>>]_vars

\* no save_credentials call is in progress
AllIdle == \A r \in Runs : pc[r] = "idle"

\* C1: with one writer at a time, after each completed save_credentials call
\* exactly one record has is_valid = true, it is the record the most recent
\* call inserted (the last one of the collection, holding that call's
\* cookies, x_s_common and user id), and every earlier record is invalid.
C1_SequentialSaveLeavesOnlyLatestValid ==
    (AllIdle /\ last_call # <<>>) =>
        /\ Len(credentials) > 0
        /\ ValidRecords = {Len(credentials)}
        /\ \A i \in 1..(Len(credentials) - 1) : ~credentials[i].is_valid
        /\ credentials[Len(credentials)].cookies = last_call[1]
        /\ credentials[Len(credentials)].x_s_common = last_call[2]
        /\ credentials[Len(credentials)].user_id = UserId(last_call[1])

\* C1 witness: three calls have completed, the first two with different cookies
C1_Witness_ThreeSaves ==
    /\ AllIdle
    /\ Len(credentials) = 3
    /\ credentials[1].cookies # credentials[2].cookies
    /\ credentials[1].user_id = "AWGS1"
    /\ credentials[2].user_id = "AS2"
    /\ ValidRecords = {3}

\* C2: at most one record with is_valid = true exists in every reachable
\* state, also when two runs interleave the steps of save_credentials.
C2_AtMostOneValid == Cardinality(ValidRecords) <= 1

\* C3: once the store holds a valid record, no state between two store steps
\* of a later save_credentials call has zero valid records.
C3_NeverZeroValid == [][ValidRecords # {} => ValidRecords' # {}]_vars

(***************************************************************************)
(* storage.py: the api_signatures collection                               *)
(***************************************************************************)

\* Endpoint names save_signature is called with
SavedEndpoints == {"user_me", "home_feed_recommend", "home_feed_fashion"}

\* signature_data dicts save_signature is called with: a full bundle of a
\* POST, a full bundle of a GET (post_body None), and one holding only x-s
SignatureDatas ==
    { ("x-s" :> "XYS_1") @@ ("x-t" :> "1700000000001") @@ ("x-s-common" :> "abc")
        @@ ("x-b3-traceid" :> "b3") @@ ("x-xray-traceid" :> "xr")
        @@ ("method" :> "POST") @@ ("post_body" :> Some("{\"num\":20}")),
      ("x-s" :> "XYS_2") @@ ("x-t" :> "1700000000002") @@ ("x-s-common" :> "abcdef")
        @@ ("x-b3-traceid" :> "") @@ ("x-xray-traceid" :> "")
        @@ ("method" :> "GET") @@ ("post_body" :> None),
      ("x-s" :> "XYS_3") }

\* storage.py lines 64-75: the fields update_one sets (captured_at holds the
\* wall clock, which no operation reads; it is left out).  post_body is an
\* Optional, so its default "" is Some("").
SignatureFields(endpoint, signature_data) ==
    [endpoint |-> endpoint,
     x_s |-> Get(signature_data, "x-s", ""),
     x_t |-> Get(signature_data, "x-t", ""),
     x_s_common |-> Get(signature_data, "x-s-common", ""),
     x_b3_traceid |-> Get(signature_data, "x-b3-traceid", ""),
     x_xray_traceid |-> Get(signature_data, "x-xray-traceid", ""),
     method |-> Get(signature_data, "method", "GET"),
     post_body |-> Get(signature_data, "post_body", Some("")),
     is_valid |-> TRUE]

\* the indexes of the records of an endpoint
RecordsOf(coll, endpoint) == {i \in DOMAIN coll : coll[i].endpoint = endpoint}

\* insert_one in the place of the upsert: a record is appended on every call
InsertAlways(coll, endpoint, fields) == Append(coll, fields)

\* collection.update_one({"endpoint": endpoint}, {"$set": fields}, upsert=True):
\* the first record matching the filter takes the fields; with no match a
\* record made of the filter and the fields is inserted
UpdateOneUpsert(coll, endpoint, fields) ==
    IF RecordsOf(coll, endpoint) # {}
    THEN LET i == CHOOSE j \in RecordsOf(coll, endpoint) :
                      \A k \in RecordsOf(coll, endpoint) : j <= k
         IN  [coll EXCEPT ![i] = fields @@ coll[i]]
    ELSE Append(coll, fields @@ [endpoint |-> endpoint])

\* save_signature(endpoint, signature_data), storage.py lines 48-80
SaveSignature(endpoint, signature_data) ==
    /\ api_signatures' =
           UpdateOneUpsert(api_signatures, endpoint,
                           SignatureFields(endpoint, signature_data))
    /\ last_sig' = (endpoint :> signature_data) @@ last_sig
    /\ UNCHANGED <<storeVars, captureVars, sessionVars>>

NextSig ==
    \E endpoint \in SavedEndpoints, signature_data \in SignatureDatas :
        SaveSignature(endpoint, signature_data)

SpecSig == Init /\ [][NextSig /\ UNCHANGED <<runVars, auxVars>>]_vars

\* C4: after any sequence of save_signature calls the store holds at most one
\* record per endpoint id, and the record of an endpoint id carries the header
\* values, method and body of the most recent save_signature call for that id.
C4_SignatureUpsert ==
    \A endpoint \in SavedEndpoints :
        /\ Cardinality(RecordsOf(api_signatures, endpoint)) <= 1
        /\ endpoint \in DOMAIN last_sig =>
               \E i \in DOMAIN api_signatures :
                   /\ api_signatures[i].endpoint = endpoint
                   /\ api_signatures[i].x_s = Get(last_sig[endpoint], "x-s", "")
                   /\ api_signatures[i].x_t = Get(last_sig[endpoint], "x-t", "")
                   /\ api_signatures[i].x_s_common = Get(last_sig[endpoint], "x-s-common", "")
                   /\ api_signatures[i].x_b3_traceid = Get(last_sig[endpoint], "x-b3-traceid", "")
                   /\ api_signatures[i].x_xray_traceid = Get(last_sig[endpoint], "x-xray-traceid", "")
                   /\ api_signatures[i].method = Get(last_sig[endpoint], "method", "GET")
                   /\ api_signatures[i].post_body = Get(last_sig[endpoint], "post_body", Some(""))
                   /\ api_signatures[i].is_valid

\* C4 witness: user_me was saved, another endpoint after it, and user_me again
\* with other headers: its one record, still the first, carries the later ones
C4_Witness_Overwritten ==
    /\ Len(api_signatures) = 2
    /\ api_signatures[1].endpoint = "user_me"
    /\ api_signatures[1].x_s = "XYS_3"
    /\ api_signatures[1].x_t = ""
    /\ api_signatures[2].endpoint = "home_feed_fashion"
    /\ api_signatures[2].x_s = "XYS_1"

(***************************************************************************)
(* config.py: the tables                                                   *)
(***************************************************************************)

\* ENDPOINT_PATTERNS, in the dict's order: <<endpoint, pattern>>
ENDPOINT_PATTERNS ==
    << <<"user_me", "/api/sns/web/v2/user/me">>,
       <<"search_trending", "/api/sns/web/v1/search/querytrending">>,
       <<"home_feed", "/api/sns/web/v1/homefeed">>,
       <<"notification_mentions", "/api/sns/web/v1/you/mentions">>,
       <<"notification_connections", "/api/sns/web/v1/you/connections">>,
       <<"note_page", "/api/sns/web/v2/comment/page">> >>

\* FEED_CHANNELS: the eleven tabs in order.  The tab names are Chinese words,
\* which a TLA+ string cannot hold; each is written by its meaning.
FEED_CHANNELS ==
    <<"recommend", "fashion", "food", "cosmetics", "movie_tv", "career",
      "love", "household", "gaming", "travel", "fitness">>

\* CHANNEL_MAP: tab name -> category discriminator
CHANNEL_MAP ==
    ("recommend" :> "homefeed_recommend")
    @@ ("fashion" :> "homefeed.fashion_v3")
    @@ ("food" :> "homefeed.food_v3")
    @@ ("cosmetics" :> "homefeed.cosmetics_v3")
    @@ ("movie_tv" :> "homefeed.movie_and_tv_v3")
    @@ ("career" :> "homefeed.career_v3")
    @@ ("love" :> "homefeed.love_v3")
    @@ ("household" :> "homefeed.household_product_v3")
    @@ ("gaming" :> "homefeed.gaming_v3")
    @@ ("travel" :> "homefeed.travel_v3")
    @@ ("fitness" :> "homefeed.fitness_v3")

(***************************************************************************)
(* json.loads, for the request bodies of the model: an object whose keys   *)
(* are strings and whose values are strings or unsigned integers, written  *)
(* without blanks or escapes, or the empty array; any other text raises.   *)
(* A JSON string s is <<"str", s>>, a number of digits d is <<"num", d>>.  *)
(***************************************************************************)

Digits == {"0", "1", "2", "3", "4", "5", "6", "7", "8", "9"}

\* the first index >= i of s holding the character c, 0 when there is none
RECURSIVE ScanTo(_, _, _)
ScanTo(s, i, c) ==
    IF i > Len(s) THEN 0
    ELSE IF Ch(s, i) = c THEN i ELSE ScanTo(s, i + 1, c)

\* the index after the digits that start at i
RECURSIVE DigitsEnd(_, _)
DigitsEnd(s, i) ==
    IF i <= Len(s) /\ Ch(s, i) \in Digits THEN DigitsEnd(s, i + 1) ELSE i

NoValue == [ok |-> FALSE, val |-> <<"str", "">>, next |-> 0]

\* the JSON string or number that starts at index i of s
ParseValue(s, i) ==
    IF i > Len(s) THEN NoValue
    ELSE IF Ch(s, i) = "\""
         THEN LET j == ScanTo(s, i + 1, "\"")
              IN  IF j = 0 THEN NoValue
                  ELSE [ok |-> TRUE, val |-> <<"str", SubSeq(s, i + 1, j - 1)>>,
                        next |-> j + 1]
    ELSE IF Ch(s, i) \in Digits
         THEN LET j == DigitsEnd(s, i)
              IN  [ok |-> TRUE, val |-> <<"num", SubSeq(s, i, j - 1)>>, next |-> j]
    ELSE NoValue

\* json.loads raised
DecodeError == [ok |-> FALSE, kind |-> "error", members |-> EmptyDict]

\* the members of an object from index i on, added to acc; a repeated key
\* keeps its last value
RECURSIVE ParseMembers(_, _, _)
ParseMembers(s, i, acc) ==
    LET k == ParseValue(s, i)
    IN  IF ~k.ok \/ k.val[1] # "str" THEN DecodeError
        ELSE IF k.next > Len(s) \/ Ch(s, k.next) # ":" THEN DecodeError
        ELSE LET v == ParseValue(s, k.next + 1)
             IN  IF ~v.ok \/ v.next > Len(s) THEN DecodeError
                 ELSE IF Ch(s, v.next) = "}" /\ v.next = Len(s)
                      THEN [ok |-> TRUE, kind |-> "object",
                            members |-> (k.val[2] :> v.val) @@ acc]
                 ELSE IF Ch(s, v.next) = ","
                      THEN ParseMembers(s, v.next + 1, (k.val[2] :> v.val) @@ acc)
                 ELSE DecodeError

json_loads(s) ==
    IF s = "{}" THEN [ok |-> TRUE, kind |-> "object", members |-> EmptyDict]
    ELSE IF s = "[]" THEN [ok |-> TRUE, kind |-> "array", members |-> EmptyDict]
    ELSE IF Len(s) >= 2 /\ Ch(s, 1) = "{" THEN ParseMembers(s, 2, EmptyDict)
    ELSE DecodeError

\* Python's truth value of a decoded JSON string or number
Truthy(v) == IF v[1] = "str" THEN v[2] # "" ELSE v[2] # "0"

(***************************************************************************)
(* signature.py: SignatureCapture.create_request_handler                   *)
(***************************************************************************)

\* A request is [url, method, headers, post_data]: headers is the dict
\* request.headers, post_data the Optional request.post_data.

\* lines 45-47 with >= in the place of >: a later value of equal length wins
TrackCommonOrEqual(current, headers) ==
    IF "x-s-common" \in DOMAIN headers
    THEN IF Len(headers["x-s-common"]) >= Len(current)
         THEN headers["x-s-common"] ELSE current
    ELSE current

\* signature.py lines 45-47: the value self.x_s_common takes
TrackCommon(current, headers) ==
    IF "x-s-common" \in DOMAIN headers
    THEN IF Len(headers["x-s-common"]) > Len(current)
         THEN headers["x-s-common"] ELSE current
    ELSE current

\* line 51 without the test of the signing header
MatchesUrlOnly(pattern, url, headers) == Contains(url, pattern)

\* signature.py line 51: pattern in url and 'x-s' in headers
Matches(pattern, url, headers) ==
    Contains(url, pattern) /\ "x-s" \in DOMAIN headers

\* signature.py line 53
PostData(request) ==
    IF request.method = "POST" THEN request.post_data ELSE None

\* lines 67-87 with safe_cat of line 72, the first dot-segment, as the name
CategoryEndpointSafeCat(category, endpoint) ==
    IF category = "homefeed_recommend" THEN "home_feed_recommend"
    ELSE "home_feed_" \o Split(category, ".")[1]

\* lines 67-87 as they were before version suffixes were handled: the second
\* segment is always cut at its first underscore
CategoryEndpointFirstSegment(category, endpoint) ==
    IF category = "homefeed_recommend" THEN "home_feed_recommend"
    ELSE IF Contains(category, ".")
         THEN "home_feed_" \o Split(Split(category, ".")[2], "_")[1]
         ELSE "home_feed_" \o category

\* lines 67-87 without the fallback of line 83: the second segment is kept whole
CategoryEndpointNoFallback(category, endpoint) ==
    IF category = "homefeed_recommend" THEN "home_feed_recommend"
    ELSE IF Contains(category, ".")
         THEN LET raw_cat == Split(category, ".")[2]
              IN  "home_feed_" \o (IF EndsWith(raw_cat, "_v3")
                                   THEN SubSeq(raw_cat, 1, Len(raw_cat) - 3)
                                   ELSE raw_cat)
         ELSE "home_feed_" \o category

\* signature.py lines 67-87: storage_endpoint for a non-empty str category
CategoryEndpoint(category, endpoint) ==
    IF category = "homefeed_recommend" THEN "home_feed_recommend"
    ELSE IF Contains(category, ".")
         THEN LET parts == Split(category, ".")
              IN  IF Len(parts) > 1
                  THEN LET raw_cat == parts[2]
                       IN  "home_feed_" \o
                               (IF EndsWith(raw_cat, "_v3")
                                THEN SubSeq(raw_cat, 1, Len(raw_cat) - 3)
                                ELSE Split(raw_cat, "_")[1])
                  ELSE endpoint
         ELSE "home_feed_" \o category

\* signature.py lines 56-91: the key the bundle is filed under.  Every
\* exception of the try block (json.loads raising, body.get on a value that
\* is no dict, '.' in category on a number) is raised before storage_endpoint
\* is assigned, and is caught: storage_endpoint stays endpoint.
StorageEndpoint(endpoint, post_data) ==
    IF endpoint = "home_feed" /\ post_data # None /\ post_data[1] # ""
    THEN LET body == json_loads(post_data[1])
         IN  IF ~body.ok \/ body.kind # "object" THEN endpoint
             ELSE IF "category" \notin DOMAIN body.members THEN endpoint
             ELSE LET category == body.members["category"]
                  IN  IF ~Truthy(category) THEN endpoint
                      ELSE IF category[1] # "str" THEN endpoint
                      ELSE CategoryEndpoint(category[2], endpoint)
    ELSE endpoint

\* signature.py lines 93-101: the bundle of a request
SignatureBundle(request, post_data) ==
    ("x-s" :> Get(request.headers, "x-s", ""))
    @@ ("x-t" :> Get(request.headers, "x-t", ""))
    @@ ("x-s-common" :> Get(request.headers, "x-s-common", ""))
    @@ ("x-b3-traceid" :> Get(request.headers, "x-b3-traceid", ""))
    @@ ("x-xray-traceid" :> Get(request.headers, "x-xray-traceid", ""))
    @@ ("method" :> request.method)
    @@ ("post_body" :> post_data)

\* signature.py line 93: self.signatures[key] = value
SetItem(d, key, value) == (key :> value) @@ d

\* lines 50-105 without the break of line 105: every matching pattern files a bundle
RECURSIVE MatchEndpointsNoBreak(_, _, _)
MatchEndpointsNoBreak(sigs, request, i) ==
    IF i > Len(ENDPOINT_PATTERNS) THEN sigs
    ELSE IF Matches(ENDPOINT_PATTERNS[i][2], request.url, request.headers)
         THEN MatchEndpointsNoBreak(
                  SetItem(sigs,
                          StorageEndpoint(ENDPOINT_PATTERNS[i][1], PostData(request)),
                          SignatureBundle(request, PostData(request))),
                  request, i + 1)
         ELSE MatchEndpointsNoBreak(sigs, request, i + 1)

\* signature.py lines 50-105: the loop over ENDPOINT_PATTERNS from its i-th
\* item on; the first match files the bundle and breaks
RECURSIVE MatchEndpoints(_, _, _)
MatchEndpoints(sigs, request, i) ==
    IF i > Len(ENDPOINT_PATTERNS) THEN sigs
    ELSE IF Matches(ENDPOINT_PATTERNS[i][2], request.url, request.headers)
         THEN SetItem(sigs,
                      StorageEndpoint(ENDPOINT_PATTERNS[i][1], PostData(request)),
                      SignatureBundle(request, PostData(request)))
         ELSE MatchEndpoints(sigs, request, i + 1)

\* handle_request(request), signature.py lines 40-105
HandleRequest(request) ==
    /\ x_s_common' = TrackCommon(x_s_common, request.headers)
    /\ signatures' = MatchEndpoints(signatures, request, 1)
    /\ observed' = Append(observed, request)
    /\ UNCHANGED <<storeVars, sigStoreVars, sessionVars>>

(***************************************************************************)
(* The requests the page issues                                            *)
(***************************************************************************)

UrlUserMe == "https://edith.xiaohongshu.com/api/sns/web/v2/user/me"
UrlHomeFeed == "https://edith.xiaohongshu.com/api/sns/web/v1/homefeed"
\* the QR status poll, which no pattern of ENDPOINT_PATTERNS matches
UrlQrStatus == "https://edith.xiaohongshu.com/api/sns/web/v1/login/qrcode/status?qr_id=1"
\* a URL holding two patterns, user_me and home_feed
UrlTwoPatterns ==
    "https://edith.xiaohongshu.com/api/sns/web/v1/homefeed?ref=/api/sns/web/v2/user/me"

HeadersFull1 ==
    ("x-s" :> "XYS_1") @@ ("x-t" :> "1700000000001") @@ ("x-s-common" :> "abc")
    @@ ("x-b3-traceid" :> "b3a") @@ ("x-xray-traceid" :> "xra")
HeadersFull2 ==
    ("x-s" :> "XYS_2") @@ ("x-t" :> "1700000000002") @@ ("x-s-common" :> "abcdef")
\* a common header as long as that of HeadersFull2, and no x-s
HeadersCommonOnly == ("accept" :> "*/*") @@ ("x-s-common" :> "uvwxyz")
\* x-s and no common header
HeadersSignOnly == ("x-s" :> "XYS_4")

Request(url, method, headers, post_data) ==
    [url |-> url, method |-> method, headers |-> headers, post_data |-> post_data]

\* the body of a feed request of a category
FeedBody(category) == "{\"num\":20,\"category\":\"" \o category \o "\"}"

\* The most requests the handler observes in the model, in SpecCapture and in SpecFeed.
MaxObserved == 3
MaxFeedObserved == 2

\* Requests of any endpoint
CaptureRequests ==
    { Request(UrlUserMe, "GET", HeadersFull1, None),
      Request(UrlUserMe, "GET", HeadersFull2, None),
      Request(UrlUserMe, "GET", HeadersCommonOnly, None),
      Request(UrlQrStatus, "GET", HeadersFull1, None),
      Request(UrlQrStatus, "GET", HeadersCommonOnly, None),
      Request(UrlHomeFeed, "POST", HeadersFull2, Some(FeedBody("homefeed_recommend"))),
      Request(UrlTwoPatterns, "GET", HeadersSignOnly, None) }

\* Category discriminators that are not in CHANNEL_MAP
OtherCategories ==
    {"homefeed.follow_feed", "homefeed.video", "homefeed.fashion_v2",
     "homefeed_video", "live"}

\* Signed requests to the feed endpoint: one per category, and those whose
\* body gives no category
FeedRequests ==
    { Request(UrlHomeFeed, "POST", HeadersFull1, Some(FeedBody(CHANNEL_MAP[ch]))) :
          ch \in DOMAIN CHANNEL_MAP }
    \cup { Request(UrlHomeFeed, "POST", HeadersFull1, Some(FeedBody(c))) :
               c \in OtherCategories }
    \cup { Request(UrlHomeFeed, "POST", HeadersFull1, b) :
               b \in {None, Some(""), Some("cursor=1&num=20"), Some("{\"num\":20}"),
                      Some("[]"), Some("{\"category\":5}"),
                      Some("{\"category\":\"\"}")} }
    \cup { Request(UrlHomeFeed, "GET", HeadersFull1, Some(FeedBody("homefeed.food_v3"))) }

NextCapture ==
    \E request \in CaptureRequests :
        /\ Len(observed) < MaxObserved
        /\ HandleRequest(request)

SpecCapture == Init /\ [][NextCapture /\ UNCHANGED <<runVars, auxVars>>]_vars

NextFeed ==
    \E request \in FeedRequests :
        /\ Len(observed) < MaxFeedObserved
        /\ HandleRequest(request)

SpecFeed == Init /\ [][NextFeed /\ UNCHANGED <<runVars, auxVars>>]_vars

(***************************************************************************)
(* Properties of the request handler                                       *)
(***************************************************************************)

\* the request observed last
LastObserved == observed[Len(observed)]

\* the indexes of the patterns a URL contains
PatternsIn(url) ==
    {i \in DOMAIN ENDPOINT_PATTERNS : Contains(url, ENDPOINT_PATTERNS[i][2])}

\* a request resolves to an endpoint id when it carries x-s and its URL contains a pattern
Resolves(request) ==
    PatternsIn(request.url) # {} /\ "x-s" \in DOMAIN request.headers

\* the endpoint id a resolving request is filed under: that of the first pattern its URL contains
ResolvedId(request) ==
    LET i == CHOOSE j \in PatternsIn(request.url) :
                 \A k \in PatternsIn(request.url) : j <= k
    IN  StorageEndpoint(ENDPOINT_PATTERNS[i][1], PostData(request))

\* the entries of the map that a step writes: new keys and keys whose bundle changes
WrittenEntries ==
    {k \in DOMAIN signatures' : k \notin DOMAIN signatures \/ signatures'[k] # signatures[k]}

\* C5: handling one request writes at most one entry of the signature map and
\* removes none (the first matching pattern wins and matching stops), and of
\* the observed requests that resolve to one endpoint id the map holds only
\* the bundle of the latest.
C5_OneEntryLatestWins ==
    /\ [][/\ Cardinality(WrittenEntries) <= 1
          /\ DOMAIN signatures \subseteq DOMAIN signatures']_vars
    /\ [](\A j \in DOMAIN observed :
              (/\ Resolves(observed[j])
               /\ \A k \in DOMAIN observed :
                      (k > j /\ Resolves(observed[k]))
                          => ResolvedId(observed[k]) # ResolvedId(observed[j]))
              => /\ ResolvedId(observed[j]) \in DOMAIN signatures
                 /\ signatures[ResolvedId(observed[j])]["x-s"] = observed[j].headers["x-s"]
                 /\ signatures[ResolvedId(observed[j])]["method"] = observed[j].method
                 /\ signatures[ResolvedId(observed[j])]["post_body"] = PostData(observed[j]))

\* C5 witness: a user_me request, then a request whose URL holds the user_me
\* and the home_feed pattern with another x-s: the map holds one entry, under
\* user_me, with the second request's x-s
C5_Witness_Replaced ==
    /\ Len(observed) = 2
    /\ observed[1].url = UrlUserMe
    /\ observed[1].headers = HeadersFull1
    /\ observed[2].url = UrlTwoPatterns
    /\ Cardinality(PatternsIn(observed[2].url)) = 2
    /\ DOMAIN signatures = {"user_me"}
    /\ signatures["user_me"]["x-s"] = "XYS_4"

\* a request to the feed endpoint that has no body, a body that cannot be
\* decoded, or a decoded body with no category
FeedWithoutCategory(request) ==
    /\ Contains(request.url, "/api/sns/web/v1/homefeed")
    /\ \/ PostData(request) = None
       \/ ~json_loads(PostData(request)[1]).ok
       \/ json_loads(PostData(request)[1]).kind # "object"
       \/ "category" \notin DOMAIN json_loads(PostData(request)[1]).members

\* C6: a request to the multiplexed feed endpoint with no body, an undecodable
\* body or a body without category leaves the signature map unchanged.
C6_NoBundleWithoutCategory ==
    [][(observed' # observed /\ FeedWithoutCategory(observed'[Len(observed')]))
           => signatures' = signatures]_vars

\* the category of a request's decoded body, "" when it has none that is a string
DecodedCategory(request) ==
    IF PostData(request) = None THEN ""
    ELSE LET body == json_loads(PostData(request)[1])
         IN  IF body.ok /\ body.kind = "object" /\ "category" \in DOMAIN body.members
                /\ body.members["category"][1] = "str"
             THEN body.members["category"][2]
             ELSE ""

\* the endpoint ids C7 states for the channel table
C7_Expected ==
    ("homefeed_recommend" :> "home_feed_recommend")
    @@ ("homefeed.fashion_v3" :> "home_feed_fashion")
    @@ ("homefeed.food_v3" :> "home_feed_food")
    @@ ("homefeed.cosmetics_v3" :> "home_feed_cosmetics")
    @@ ("homefeed.movie_and_tv_v3" :> "home_feed_movie_and_tv")
    @@ ("homefeed.career_v3" :> "home_feed_career")
    @@ ("homefeed.love_v3" :> "home_feed_love")
    @@ ("homefeed.household_product_v3" :> "home_feed_household_product")
    @@ ("homefeed.gaming_v3" :> "home_feed_gaming")
    @@ ("homefeed.travel_v3" :> "home_feed_travel")
    @@ ("homefeed.fitness_v3" :> "home_feed_fitness")

\* the map holds the bundle of the request observed last under the id
FiledUnder(id) ==
    /\ id \in DOMAIN signatures
    /\ signatures[id] = SignatureBundle(LastObserved, PostData(LastObserved))

\* C7: a signed feed request whose category is a discriminator of the channel
\* table is filed under home_feed_ followed by the discriminator's second
\* dot-segment without its version suffix; homefeed_recommend is filed under
\* home_feed_recommend.
C7_ChannelTableIds ==
    \A ch \in DOMAIN CHANNEL_MAP :
        (observed # <<>> /\ DecodedCategory(LastObserved) = CHANNEL_MAP[ch])
            => /\ CHANNEL_MAP[ch] \in DOMAIN C7_Expected
               /\ FiledUnder(C7_Expected[CHANNEL_MAP[ch]])

\* C7 witness: the movie_and_tv and the household_product channels were captured
C7_Witness_MultiUnderscore ==
    /\ Len(observed) = 2
    /\ DecodedCategory(observed[1]) = "homefeed.movie_and_tv_v3"
    /\ DecodedCategory(observed[2]) = "homefeed.household_product_v3"
    /\ DOMAIN signatures = {"home_feed_movie_and_tv", "home_feed_household_product"}

\* a discriminator without the version suffix, other than homefeed_recommend
Unversioned(category) ==
    category # "" /\ category # "homefeed_recommend" /\ ~EndsWith(category, "_v3")

\* the category part of a discriminator: its second dot-segment, or all of it
\* when it has no dot
CategoryPart(category) ==
    IF Contains(category, ".") THEN Split(category, ".")[2] ELSE category

\* C8 as stated: every unversioned discriminator, dotted or not, is filed under
\* home_feed_ followed by the first underscore-delimited segment of its
\* category part.
C8_FirstSegmentAlways ==
    (observed # <<>> /\ Unversioned(DecodedCategory(LastObserved)))
        => FiledUnder("home_feed_"
                          \o Split(CategoryPart(DecodedCategory(LastObserved)), "_")[1])

\* C8 amended: an unversioned dotted discriminator is filed under home_feed_
\* followed by the first underscore-delimited segment of its second
\* dot-segment; an unversioned discriminator without a dot is filed under
\* home_feed_ followed by the whole discriminator.
C8_FirstSegmentWhenDotted ==
    (observed # <<>> /\ Unversioned(DecodedCategory(LastObserved)))
        => IF Contains(DecodedCategory(LastObserved), ".")
           THEN FiledUnder("home_feed_"
                    \o Split(Split(DecodedCategory(LastObserved), ".")[2], "_")[1])
           ELSE FiledUnder("home_feed_" \o DecodedCategory(LastObserved))

\* C8 witness: a dotted and an undotted unversioned discriminator, each with
\* an underscore in its category part
C8_Witness_Unversioned ==
    /\ Len(observed) = 2
    /\ DecodedCategory(observed[1]) = "homefeed.follow_feed"
    /\ DecodedCategory(observed[2]) = "homefeed_video"
    /\ DOMAIN signatures = {"home_feed_follow", "home_feed_homefeed_video"}

\* C9: a request whose URL contains no configured pattern, or which carries
\* no x-s header, leaves the signature map unchanged; so a bundle is written
\* only for a request with both.
C9_WritesOnlySignedMatches ==
    [][(observed' # observed /\ ~Resolves(observed'[Len(observed')]))
           => signatures' = signatures]_vars

\* C9 witness: a user_me request without x-s was observed after a signed one;
\* it raised the tracked common header and the map holds the earlier bundle
C9_Witness_UnsignedIgnored ==
    /\ Len(observed) = 2
    /\ observed[1].headers = HeadersFull1
    /\ observed[2].url = UrlUserMe
    /\ "x-s" \notin DOMAIN observed[2].headers
    /\ x_s_common = "uvwxyz"
    /\ DOMAIN signatures = {"user_me"}
    /\ signatures["user_me"]["x-s"] = "XYS_1"

\* the x-s-common values observed so far, in order
CommonsObserved ==
    SelectSeq([i \in DOMAIN observed |-> Get(observed[i].headers, "x-s-common", "")],
              LAMBDA c : c # "")

\* the first of the longest values of a sequence of strings, "" for none
FirstLongest(cs) ==
    IF cs = <<>> THEN ""
    ELSE cs[CHOOSE i \in DOMAIN cs :
                \A j \in DOMAIN cs :
                    Len(cs[j]) < Len(cs[i]) \/ (Len(cs[j]) = Len(cs[i]) /\ i <= j)]

\* C10: the tracked common header is the first of the longest x-s-common
\* values observed so far, and its length never decreases.
C10_LongestCommonKept ==
    /\ [](x_s_common = FirstLongest(CommonsObserved))
    /\ [][Len(x_s_common') >= Len(x_s_common)]_vars

\* C10 witness: the longest value, then another of its length, then a shorter one
C10_Witness_TieAndShorter ==
    /\ Len(observed) = 3
    /\ CommonsObserved = <<"abcdef", "uvwxyz", "abc">>
    /\ x_s_common = "abcdef"

(***************************************************************************)
(* browser.py: the browser as the scripts see it                           *)
(***************************************************************************)

\* the address the site redirects to after a login
ProfileUrl == "https://www.xiaohongshu.com/user/profile/5f3a"

\* the values the site gives the web_session cookie
SessionValues == {"", "guest", "user1"}

\* the messages of the errors Playwright raises on an unreachable browser
CloseErrors == {"Target page, context or browser has been closed",
                "Connection closed while reading from the driver"}

\* the least and the greatest element of a non-empty set of numbers
Least(S) == CHOOSE x \in S : \A y \in S : x <= y
Greatest(S) == CHOOSE x \in S : \A y \in S : y <= x

\* the browser stores a cookie: it replaces the cookie of that name or appends
SetCookie(cookies, name, value) ==
    IF \E i \in DOMAIN cookies : cookies[i].name = name
    THEN [i \in DOMAIN cookies |->
             IF cookies[i].name = name THEN Cookie(name, value) ELSE cookies[i]]
    ELSE Append(cookies, Cookie(name, value))

\* lines 171 and 209: next((c['value'] for c in cookies if c['name'] == 'web_session'), None)
WebSession(cookies) ==
    LET hits == {i \in DOMAIN cookies : cookies[i].name = "web_session"}
    IN  IF hits = {} THEN None ELSE Some(cookies[Least(hits)].value)

\* lines 216 and 237: {c['name']: c['value'] for c in cookies}
CookieDict(cookies) ==
    [n \in {cookies[i].name : i \in DOMAIN cookies} |->
        cookies[Greatest({i \in DOMAIN cookies : cookies[i].name = n})].value]

\* the site redirects the page to the user's profile
SiteRedirects ==
    /\ close_error = ""
    /\ page_url # ProfileUrl
    /\ page_url' = ProfileUrl
    /\ UNCHANGED <<avatar, jar, close_error, qr_visible>>

\* the side bar gets an avatar element, hidden or visible
SiteShowsAvatar(a) ==
    /\ close_error = ""
    /\ avatar # a
    /\ avatar' = a
    /\ UNCHANGED <<page_url, jar, close_error, qr_visible>>

\* the site sets the web_session cookie
SiteSetsSession(v) ==
    /\ close_error = ""
    /\ WebSession(jar) # Some(v)
    /\ jar' = SetCookie(jar, "web_session", v)
    /\ UNCHANGED <<page_url, avatar, close_error, qr_visible>>

\* the login modal goes away
SiteHidesQr ==
    /\ close_error = ""
    /\ qr_visible
    /\ qr_visible' = FALSE
    /\ UNCHANGED <<page_url, avatar, jar, close_error>>

\* the user closes the window or the connection to the browser is lost
BrowserCloses(message) ==
    /\ close_error = ""
    /\ close_error' = message
    /\ UNCHANGED <<page_url, avatar, jar, qr_visible>>

(***************************************************************************)
(* browser.py: QrCodeStatusMonitor                                         *)
(***************************************************************************)

\* config.py line 57
QRCODE_STATUS_URL == "/api/sns/web/v1/login/qrcode/status"

\* the body of a status response as response.json() decodes it
StatusBody(code) == ("success" :> TRUE) @@ ("data" :> ("code_status" :> code))
StatusBodyLoggedIn ==
    ("success" :> TRUE)
    @@ ("data" :> (("code_status" :> 2) @@ ("login_info" :> ("user_id" :> "u1"))))

\* a response is [url, status, json]: json is <<>> when the body does not decode
Response(url, status, json) == [url |-> url, status |-> status, json |-> json]

StatusUrl == "https://edith.xiaohongshu.com/api/sns/web/v1/login/qrcode/status?qr_id=1"

\* the responses of the status endpoint the page may receive
StatusResponses ==
    { Response(StatusUrl, 200, Some(StatusBody(c))) : c \in {0, 1, 2} }
    \cup { Response(StatusUrl, 200, Some(StatusBodyLoggedIn)),
           Response(StatusUrl, 200, Some(("success" :> FALSE) @@ ("data" :> ("code_status" :> 2)))),
           Response(StatusUrl, 200, Some(("success" :> TRUE))),
           Response(StatusUrl, 200, None),
           Response(StatusUrl, 500, Some(StatusBodyLoggedIn)),
           Response("https://edith.xiaohongshu.com/api/sns/web/v1/login/qrcode/create",
                    200, Some(StatusBodyLoggedIn)) }

\* bound: the status responses one monitor sees
MaxStatusResponses == 2

\* lines 40-58: the response handler of the monitor
MonitorHandler(response) ==
    /\ Len(status_history) < MaxStatusResponses
    /\ IF /\ Contains(response.url, QRCODE_STATUS_URL)
          /\ response.status = 200
          /\ response.json # None
          /\ Get(response.json[1], "success", FALSE)
          /\ "data" \in DOMAIN response.json[1]
       THEN LET data == response.json[1]
                status_data == data["data"]
                code_status == status_data["code_status"]
            IN  /\ latest_status' = Some(data)
                /\ status_history' = Append(status_history, code_status)
                /\ login_info' = IF code_status = 2 /\ "login_info" \in DOMAIN status_data
                                 THEN Some(status_data["login_info"])
                                 ELSE login_info
       ELSE UNCHANGED <<latest_status, login_info, status_history>>

\* lines 62-66
get_code_status ==
    IF latest_status # None
    THEN Get(Get(latest_status[1], "data", EmptyDict), "code_status", -1)
    ELSE -1

\* lines 68-70
is_logged_in == get_code_status = 2

(***************************************************************************)
(* browser.py: wait_for_login_complete                                     *)
(*                                                                         *)
(* One action per await of the coroutine, so that the browser may change   *)
(* between any two of them.  lpc is "idle" before the call, "loop" at the  *)
(* head of the poll loop (line 178), "url", "avatar", "cookie" and "modal" *)
(* before the four checks of an iteration, "after" at line 231, "final" at *)
(* line 236, "done" once the call has returned and "raised" once an        *)
(* exception has left it.                                                  *)
(***************************************************************************)

\* line 175
poll_interval == 2000

\* bound: the timeout argument, in seconds
MaxTimeout == 4
Timeouts == 1..MaxTimeout

\* lines 162-167
InitialResult ==
    ("success" :> FALSE) @@ ("cookies" :> EmptyDict)
    @@ ("user_info" :> None) @@ ("status" :> "waiting")

\* line 183: "Target" in str(e) and "closed" in str(e)
IsTargetClosed(message) == Contains(message, "Target") /\ Contains(message, "closed")

\* line 211, confirming only when the initial snapshot held a session
SessionChangedFromSome(current_web_session, initial) ==
    /\ current_web_session # None
    /\ current_web_session[1] # ""
    /\ initial # None
    /\ current_web_session # initial

\* line 211: current_web_session and current_web_session != initial_web_session
SessionChanged(current_web_session, initial) ==
    /\ current_web_session # None
    /\ current_web_session[1] # ""
    /\ current_web_session # initial

\* line 200, never seeing the avatar
AvatarSeenNever(a) == FALSE

\* line 200: await avatar.count() > 0 and await avatar.is_visible()
AvatarSeen(a) == a = "visible"

\* lines 236-238, keeping the cookies stored at detection
FinalResultKeepCookies(res, cookies) == SetItem(res, "success", TRUE)

\* lines 236-238
FinalResult(res, cookies) ==
    SetItem(SetItem(res, "cookies", CookieDict(cookies)), "success", TRUE)

\* lines 162-176: the call starts
LoginEnter(timeout) ==
    /\ lpc = "idle"
    /\ IF close_error # ""
       THEN /\ lpc' = "raised"
            /\ result' = InitialResult
            /\ UNCHANGED <<initial_web_session, max_polls>>
       ELSE /\ lpc' = "loop"
            /\ result' = InitialResult
            /\ initial_web_session' = WebSession(jar)
            /\ max_polls' = (timeout * 1000) \div poll_interval
    /\ UNCHANGED <<polls, feed_at_poll, jar_at_confirm>>

\* lines 178-188: the loop head and the wait between two polls
LoginPoll ==
    /\ lpc = "loop"
    /\ IF polls >= max_polls
       THEN /\ lpc' = "after"
            /\ UNCHANGED <<polls, result, feed_at_poll>>
       ELSE /\ polls' = polls + 1
            /\ feed_at_poll' = is_logged_in
            /\ IF close_error = ""
               THEN lpc' = "url" /\ UNCHANGED result
               ELSE IF IsTargetClosed(close_error)
               THEN /\ lpc' = "done"
                    /\ result' = SetItem(SetItem(result, "status", "cancelled"),
                                         "error", "Browser was closed by user")
               ELSE lpc' = "raised" /\ UNCHANGED result
    /\ UNCHANGED <<max_polls, initial_web_session, jar_at_confirm>>

\* lines 190-195: page.url is the address the page had last
LoginUrlCheck ==
    /\ lpc = "url"
    /\ IF Contains(page_url, "/user/profile/")
       THEN /\ result' = SetItem(result, "status", "confirmed")
            /\ jar_at_confirm' = jar
            /\ lpc' = "after"
       ELSE /\ lpc' = "avatar"
            /\ UNCHANGED <<result, jar_at_confirm>>
    /\ UNCHANGED <<polls, max_polls, initial_web_session, feed_at_poll>>

\* lines 197-205: an error of the locator is swallowed
LoginAvatarCheck ==
    /\ lpc = "avatar"
    /\ IF close_error = "" /\ AvatarSeen(avatar)
       THEN /\ result' = SetItem(result, "status", "confirmed")
            /\ jar_at_confirm' = jar
            /\ lpc' = "after"
       ELSE /\ lpc' = "cookie"
            /\ UNCHANGED <<result, jar_at_confirm>>
    /\ UNCHANGED <<polls, max_polls, initial_web_session, feed_at_poll>>

\* lines 207-217: context.cookies() is awaited outside any try
LoginCookieCheck ==
    /\ lpc = "cookie"
    /\ IF close_error # ""
       THEN lpc' = "raised" /\ UNCHANGED <<result, jar_at_confirm>>
       ELSE IF SessionChanged(WebSession(jar), initial_web_session)
       THEN /\ result' = SetItem(SetItem(result, "status", "confirmed"),
                                 "cookies", CookieDict(jar))
            /\ jar_at_confirm' = jar
            /\ lpc' = "after"
       ELSE /\ lpc' = "modal"
            /\ UNCHANGED <<result, jar_at_confirm>>
    /\ UNCHANGED <<polls, max_polls, initial_web_session, feed_at_poll>>

\* lines 219-229 with the vanished QR image taken as a login
AfterModalAssumeSuccess(status, current_web_session, visible) ==
    IF current_web_session # None /\ current_web_session[1] # "" /\ ~visible
    THEN "confirmed"
    ELSE status

\* lines 219-229: result["status"] after the check of the modal; both
\* branches (QR image gone, locator error) are a pass
AfterModal(status, current_web_session, visible) == status

\* lines 219-229: the check of the modal changes nothing, whatever it sees
LoginModalCheck ==
    /\ lpc = "modal"
    /\ lpc' = "loop"
    /\ result' = SetItem(result, "status",
                         AfterModal(result["status"], WebSession(jar), qr_visible))
    /\ UNCHANGED <<polls, max_polls, initial_web_session,
                   feed_at_poll, jar_at_confirm>>

\* lines 231-233: the settle wait after a confirmation, else the return of line 240
LoginAfterLoop ==
    /\ lpc = "after"
    /\ IF result["status"] = "confirmed"
       THEN lpc' = IF close_error = "" THEN "final" ELSE "raised"
       ELSE lpc' = "done"
    /\ UNCHANGED <<polls, max_polls, result, initial_web_session,
                   feed_at_poll, jar_at_confirm>>

\* lines 236-240: the final cookies and the return
LoginFinalCookies ==
    /\ lpc = "final"
    /\ IF close_error # ""
       THEN lpc' = "raised" /\ UNCHANGED result
       ELSE lpc' = "done" /\ result' = FinalResult(result, jar)
    /\ UNCHANGED <<polls, max_polls, initial_web_session, feed_at_poll,
                   jar_at_confirm>>

\* a step of wait_for_login_complete
LoginStep ==
    \/ LoginPoll
    \/ LoginUrlCheck
    \/ LoginAvatarCheck
    \/ LoginCookieCheck
    \/ LoginModalCheck
    \/ LoginAfterLoop
    \/ LoginFinalCookies

\* whether the call is over
LoginOver == lpc \in {"done", "raised"}

\* One call of wait_for_login_complete on a browser that changes under it.
NextLogin ==
    \/ /\ \E timeout \in Timeouts : LoginEnter(timeout)
       /\ UNCHANGED <<browserVars, monitorVars>>
    \/ LoginStep /\ UNCHANGED <<browserVars, monitorVars>>
    \/ /\ ~LoginOver
       /\ \/ SiteRedirects
          \/ \E a \in {"hidden", "visible"} : SiteShowsAvatar(a)
          \/ \E v \in SessionValues : SiteSetsSession(v)
          \/ SiteHidesQr
          \/ \E message \in CloseErrors : BrowserCloses(message)
       /\ UNCHANGED <<monitorVars, detectorVars>>

SpecLogin ==
    Init /\ [][NextLogin /\ UNCHANGED <<storeVars, sigStoreVars, captureVars, extractVars, runVars, auxVars>>]_vars

\* One call of wait_for_login_complete next to a monitor that receives the
\* responses of the status endpoint.
NextLoginFeed ==
    \/ /\ \E timeout \in Timeouts : LoginEnter(timeout)
       /\ UNCHANGED <<browserVars, monitorVars>>
    \/ LoginStep /\ UNCHANGED <<browserVars, monitorVars>>
    \/ /\ ~LoginOver
       /\ SiteRedirects \/ SiteHidesQr
       /\ UNCHANGED <<monitorVars, detectorVars>>
    \/ /\ ~LoginOver
       /\ \E response \in StatusResponses : MonitorHandler(response)
       /\ UNCHANGED <<browserVars, detectorVars>>

SpecLoginFeed ==
    Init /\ [][NextLoginFeed /\ UNCHANGED <<storeVars, sigStoreVars, captureVars, extractVars, runVars, auxVars>>]_vars

\* whether the web_session cookie of the browser is non-empty and differs
\* from the snapshot taken when the call started
SessionDiffers ==
    LET current == WebSession(jar)
    IN  current # None /\ current[1] # "" /\ current # initial_web_session

\* a step of wait_for_login_complete leaves the place p
Leaves(p) == lpc = p /\ lpc' # p

\* C11: a poll whose cookie check finds a non-empty web_session that differs
\* from the initial snapshot sets the status to confirmed in that very poll
\* and ends polling; with the browser reachable the call then passes the
\* settle wait and returns success = true.
C11_SessionDiffConfirms ==
    [][ /\ (Leaves("cookie") /\ close_error = "" /\ SessionDiffers)
            => /\ result'["status"] = "confirmed"
               /\ lpc' = "after"
               /\ polls' = polls
        /\ (Leaves("after") /\ close_error = "" /\ result["status"] = "confirmed")
            => lpc' = "final"
        /\ (Leaves("final") /\ close_error = "")
            => /\ lpc' = "done"
               /\ result'["status"] = "confirmed"
               /\ result'["success"] = TRUE ]_vars

\* C11 witness: the call returned success after the cookie check alone
\* confirmed, the session having been absent when the call started
C11_Witness_CookieConfirmed ==
    /\ lpc = "done"
    /\ result["success"] = TRUE
    /\ page_url = XHS_EXPLORE_URL
    /\ avatar # "visible"
    /\ initial_web_session = None
    /\ WebSession(jar_at_confirm) = Some("user1")
    /\ polls = 2

\* C12: a call that returns without confirmation or cancellation returns a
\* status that tells the timeout from the state it started in, with
\* success = false, after at most max_polls polls.
C12_TimedOutStatus ==
    (lpc = "done" /\ result["status"] \notin {"confirmed", "cancelled"})
        => /\ result["status"] # "waiting"
           /\ result["success"] = FALSE
           /\ polls <= max_polls

\* whether the call is inside a poll: at the wait or at one of the checks
InPoll ==
    \/ lpc = "loop" /\ polls < max_polls
    \/ lpc \in {"url", "avatar", "cookie", "modal"}

\* C13: with the browser unreachable, the next step of a poll returns the
\* result with status cancelled and success = false.
C13_UnreachableCancels ==
    [][ (close_error # "" /\ InPoll /\ lpc' # lpc)
            => /\ lpc' = "done"
               /\ result'["status"] = "cancelled"
               /\ result'["success"] = FALSE ]_vars

\* C14: each of the three signals confirms at its check, a confirmed status
\* stays confirmed and no further poll starts, and the call returns
\* success = true exactly when its status is confirmed.
C14_ConfirmedIsFinal ==
    [][ /\ (Leaves("url") /\ Contains(page_url, "/user/profile/"))
            => result'["status"] = "confirmed" /\ lpc' = "after"
        /\ (Leaves("avatar") /\ close_error = "" /\ avatar = "visible")
            => result'["status"] = "confirmed" /\ lpc' = "after"
        /\ (Leaves("cookie") /\ close_error = "" /\ SessionDiffers)
            => result'["status"] = "confirmed" /\ lpc' = "after"
        /\ (lpc # "idle" /\ result["status"] = "confirmed")
            => result'["status"] = "confirmed" /\ polls' = polls
        /\ (lpc' = "done")
            => (result'["success"] = TRUE <=> result'["status"] = "confirmed") ]_vars

\* C14 witness: the call returned success after the avatar alone confirmed,
\* in the second poll
C14_Witness_AvatarConfirmed ==
    /\ lpc = "done"
    /\ result["success"] = TRUE
    /\ result["status"] = "confirmed"
    /\ page_url = XHS_EXPLORE_URL
    /\ avatar = "visible"
    /\ ~SessionDiffers
    /\ polls = 2

\* C15: a poll that started when the status monitor had seen code_status 2
\* ends with the status confirmed.
C15_FeedConfirms ==
    [][ (feed_at_poll /\ lpc # "loop" /\ lpc' = "loop")
            => result'["status"] = "confirmed" ]_vars

\* C16: a call returns the status confirmed only from the step after the
\* settle wait, and the cookies it returns are those the browser holds at
\* that step.
C16_SettledCookiesReturned ==
    [][ (lpc # "done" /\ lpc' = "done" /\ result'["status"] = "confirmed")
            => /\ lpc = "final"
               /\ result'["cookies"] = CookieDict(jar) ]_vars

\* C16 witness: the cookie check confirmed and stored the cookies of that
\* moment, the site changed the session during the settle wait, and the call
\* returned the later cookies
C16_Witness_ChangedWhileSettling ==
    /\ lpc = "done"
    /\ result["success"] = TRUE
    /\ page_url = XHS_EXPLORE_URL
    /\ avatar # "visible"
    /\ WebSession(jar_at_confirm) = Some("guest")
    /\ result["cookies"] = CookieDict(jar)
    /\ result["cookies"]["web_session"] = "user1"

(***************************************************************************)
(* qr_code.py: extract_from_page                                           *)
(*                                                                         *)
(* epc is "idle" before the call, "try" at the head of the attempt loop    *)
(* (line 117), "wait" at the wait of line 140, "except_wait" at the wait   *)
(* of line 146, "done" once the call has returned and "raised" once an     *)
(* exception has left it.                                                  *)
(***************************************************************************)

\* config.py line 17
QR_MAX_ATTEMPTS == 30

\* s.startswith(p)
StartsWith(s, p) == Len(s) >= Len(p) /\ SubSeq(s, 1, Len(p)) = p

\* the string of n letters A
RECURSIVE Filler(_)
Filler(n) ==
    IF n = 0 THEN ""
    ELSE LET half == Filler(n \div 2)
         IN  half \o half \o (IF n % 2 = 1 THEN "A" ELSE "")

\* the prefix of a PNG data URI, 22 characters long
DataPrefix == "data:image/png;base64,"

\* src values the QR image element may carry: a loading placeholder, data
\* URIs of 2000 and of 2001 characters, and an address of 2001 characters
SrcPlaceholder == DataPrefix \o "AAAA"
SrcAtThreshold == DataPrefix \o Filler(2000 - 22)
SrcReal == DataPrefix \o Filler(2001 - 22)
SrcAddress == "https://x/" \o Filler(2001 - 10)

\* what reading the element may yield
QrSources ==
    {Missing, None, Some(""), Some(SrcPlaceholder), Some(SrcAtThreshold),
     Some(SrcReal), Some(SrcAddress)}

\* the page renders, replaces or removes the QR image
PageSetsQr(src) ==
    /\ close_error = ""
    /\ qr_src # src
    /\ qr_src' = src

\* qr_code.py lines 37-38 and 87-95, transliterated
NoQrText == "[no qr code]"
simple_ascii_placeholder == "[scan the QR code in the browser window]"

\* what the call looks like once an exception has left it
Raised == "Traceback (most recent call last)"

\* the 64 characters of the base64 alphabet
B64Alphabet ==
    LET chars == "ABCDEFGHIJKLMNOPQRSTUVWXYZabcdefghijklmnopqrstuvwxyz0123456789+/"
    IN  {Ch(chars, i) : i \in 1..Len(chars)}

\* line 47, base64.b64decode(s): characters outside the alphabet are dropped;
\* a last group of two characters needs two "=", one of three needs one, one
\* of a single character is an error.  None when binascii.Error is raised,
\* else Some(the number of bytes decoded).
b64decode(s) ==
    LET n == Cardinality({i \in 1..Len(s) : Ch(s, i) \in B64Alphabet})
        pads == Cardinality({i \in 1..Len(s) : Ch(s, i) = "="})
    IN  IF n % 4 = 0 THEN Some(3 * (n \div 4))
        ELSE IF n % 4 = 2 /\ pads >= 2 THEN Some(3 * (n \div 4) + 1)
        ELSE IF n % 4 = 3 /\ pads >= 1 THEN Some(3 * (n \div 4) + 2)
        ELSE None

\* lines 41-42, base64_data.split(',')[1] when ',' is in base64_data
AfterComma(base64_data) ==
    LET commas == {i \in 1..Len(base64_data) : Ch(base64_data, i) = ","}
    IN  IF commas = {} THEN base64_data
        ELSE LET first == CHOOSE i \in commas : \A j \in commas : i <= j
                 rest == commas \ {first}
                 second == IF rest = {} THEN Len(base64_data) + 1
                           ELSE CHOOSE i \in rest : \A j \in rest : i <= j
             IN  SubSeq(base64_data, first + 1, second - 1)

\* lines 69-72 with the glyphs exchanged
QrGridInverted(modules) ==
    LET line(row) == Join([c \in 1..Len(row) |-> IF row[c] THEN " " ELSE "#"])
    IN  IF modules = <<>> THEN ""
        ELSE Join([r \in 1..(2 * Len(modules) - 1) |->
                      IF r % 2 = 1 THEN line(modules[(r + 1) \div 2]) ELSE "\n"])

\* lines 66-73: the module matrix as text, one glyph per module ("#" stands
\* for the block character), the rows joined by newlines
QrGrid(modules) ==
    LET line(row) == Join([c \in 1..Len(row) |-> IF row[c] THEN "#" ELSE " "])
    IN  IF modules = <<>> THEN ""
        ELSE Join([r \in 1..(2 * Len(modules) - 1) |->
                      IF r % 2 = 1 THEN line(modules[(r + 1) \div 2]) ELSE "\n"])

\* What the libraries of one call do: whether pyzbar (with PIL) and qrcode
\* were imported (lines 10-21), whether Image.open and pyzbar_decode go
\* through or raise, the symbols pyzbar reads (each the text its bytes decode
\* to as UTF-8, None when they do not), and the matrix qrcode makes of the
\* text (None when it raises).
AsciiEnv(has_pyzbar, has_qrcode, image, decoded, modules) ==
    [HAS_PYZBAR |-> has_pyzbar, HAS_QRCODE |-> has_qrcode, image |-> image,
     decoded |-> decoded, modules |-> modules]

\* lines 46-78: the body of the try; Raised when an exception leaves it
AsciiBody(base64_data, env) ==
    LET img_data == b64decode(base64_data)
    IN  IF img_data = None THEN Raised
        ELSE IF env.HAS_PYZBAR
        THEN IF env.image = "raises" \/ img_data[1] = 0 THEN Raised
             ELSE IF env.decoded # <<>> /\ env.HAS_QRCODE
             THEN IF env.decoded[1] = None THEN Raised
                  ELSE IF env.modules = None THEN Raised
                  ELSE QrGrid(env.modules[1])
             ELSE simple_ascii_placeholder
        ELSE simple_ascii_placeholder

\* lines 26-82 without the except clause
base64_to_asciiNoExcept(base64_data, env) ==
    IF base64_data = "" THEN NoQrText
    ELSE AsciiBody(AfterComma(base64_data), env)

\* lines 26-82
base64_to_ascii(base64_data, env) ==
    IF base64_data = "" THEN NoQrText
    ELSE LET r == AsciiBody(AfterComma(base64_data), env)
         IN  IF r = Raised THEN simple_ascii_placeholder ELSE r

\* what the libraries may do in a call made by extract_qr: nothing is
\* installed, or everything is and the image is read
Decodings ==
    {AsciiEnv(FALSE, FALSE, "raises", <<>>, None),
     AsciiEnv(TRUE, TRUE, "ok", <<Some("https://xhs/qr/1")>>,
              Some(<<<<TRUE, FALSE>>, <<FALSE, TRUE>>>>))}

\* lines 108-113
InitialExtractResult ==
    ("success" :> FALSE) @@ ("base64" :> "") @@ ("ascii" :> "") @@ ("error" :> None)

\* line 129 with a threshold of at least 2000
AcceptedAtThreshold(src) ==
    /\ src # None
    /\ src[1] # ""
    /\ StartsWith(src[1], "data:image")
    /\ Len(src[1]) >= 2000

\* line 129: src and src.startswith("data:image") and len(src) > 2000
Accepted(src) ==
    /\ src # None
    /\ src[1] # ""
    /\ StartsWith(src[1], "data:image")
    /\ Len(src[1]) > 2000

\* lines 108-113: the call starts
ExtractEnter ==
    /\ epc = "idle"
    /\ epc' = "try"
    /\ attempt' = 0
    /\ eresult' = InitialExtractResult
    /\ UNCHANGED <<qr_src, last_rejected>>

\* lines 117-137 and 144-150: one reading of the element, or the return
\* after the last attempt
ExtractAttempt ==
    /\ epc = "try"
    /\ IF attempt >= QR_MAX_ATTEMPTS
       THEN /\ epc' = "done"
            /\ UNCHANGED <<attempt, eresult, last_rejected>>
       ELSE IF close_error # "" \/ qr_src = Missing
       THEN \* wait_for or get_attribute raises
            /\ UNCHANGED last_rejected
            /\ IF attempt < QR_MAX_ATTEMPTS - 1
               THEN epc' = "except_wait" /\ UNCHANGED <<attempt, eresult>>
               ELSE /\ eresult' = SetItem(eresult, "error",
                                     Some(IF close_error # "" THEN close_error
                                          ELSE "Timeout 5000ms exceeded."))
                    /\ attempt' = attempt + 1
                    /\ epc' = "try"
       ELSE IF Accepted(qr_src)
       THEN /\ \E decoded \in Decodings :
                 eresult' = SetItem(SetItem(SetItem(eresult, "base64", qr_src[1]),
                                "ascii", base64_to_ascii(qr_src[1], decoded)),
                                "success", TRUE)
            /\ epc' = "done"
            /\ UNCHANGED <<attempt, last_rejected>>
       ELSE /\ last_rejected' = qr_src
            /\ UNCHANGED eresult
            /\ IF attempt < QR_MAX_ATTEMPTS - 1
               THEN epc' = "wait" /\ UNCHANGED attempt
               ELSE epc' = "try" /\ attempt' = attempt + 1
    /\ UNCHANGED qr_src

\* lines 139-140: the wait before the next attempt, inside the try
ExtractWait ==
    /\ epc = "wait"
    /\ IF close_error # ""
       THEN epc' = "except_wait" /\ UNCHANGED attempt
       ELSE epc' = "try" /\ attempt' = attempt + 1
    /\ UNCHANGED <<qr_src, eresult, last_rejected>>

\* lines 144-146: the wait inside the except handler; what it raises leaves the call
ExtractExceptWait ==
    /\ epc = "except_wait"
    /\ IF close_error # ""
       THEN epc' = "raised" /\ UNCHANGED attempt
       ELSE epc' = "try" /\ attempt' = attempt + 1
    /\ UNCHANGED <<qr_src, eresult, last_rejected>>

\* a step of extract_from_page
ExtractStep ==
    \/ ExtractAttempt
    \/ ExtractWait
    \/ ExtractExceptWait

\* whether the call is over
ExtractOver == epc \in {"done", "raised"}

\* One call of extract_from_page on a page that changes under it.
NextExtract ==
    \/ ExtractEnter /\ UNCHANGED browserVars
    \/ ExtractStep /\ UNCHANGED browserVars
    \/ /\ ~ExtractOver
       /\ \E src \in QrSources : PageSetsQr(src)
       /\ UNCHANGED <<epc, attempt, eresult, last_rejected, browserVars>>
    \/ /\ ~ExtractOver
       /\ \E message \in CloseErrors : BrowserCloses(message)
       /\ UNCHANGED extractVars

SpecExtract ==
    Init /\ [][NextExtract /\ UNCHANGED <<storeVars, sigStoreVars, captureVars,
                                          monitorVars, detectorVars, runVars,
                                          auxVars>>]_vars

\* C17: a call that returned success returns a data:image URI of more than
\* 2000 characters, the one the element carried at the accepting attempt; a
\* candidate that is missing, empty, not a data:image URI or of at most 2000
\* characters is rejected at its attempt.
C17_OnlyLargeDataUriAccepted ==
    [][ /\ (epc' = "done" /\ eresult'["success"] = TRUE)
            => /\ StartsWith(eresult'["base64"], "data:image")
               /\ Len(eresult'["base64"]) > 2000
               /\ qr_src = Some(eresult'["base64"])
        /\ (epc = "try" /\ epc' # "try" /\ attempt < QR_MAX_ATTEMPTS
            /\ qr_src \in {Missing, None, Some(""), Some(SrcPlaceholder),
                           Some(SrcAtThreshold), Some(SrcAddress)})
            => epc' # "done" /\ eresult'["success"] = FALSE ]_vars

\* C17 witness: the call rejected the data URI of exactly 2000 characters and
\* then returned the one of 2001 characters
C17_Witness_ThresholdRejected ==
    /\ epc = "done"
    /\ eresult["success"] = TRUE
    /\ eresult["base64"] = SrcReal
    /\ last_rejected = Some(SrcAtThreshold)
    /\ attempt = 2

\* C18: the call never raises, reads the element at most QR_MAX_ATTEMPTS
\* times, and when it returns without success its base64 and ascii are empty.
C18_ExtractReturns ==
    /\ epc # "raised"
    /\ attempt <= QR_MAX_ATTEMPTS
    /\ (epc = "done" /\ eresult["success"] = FALSE)
        => eresult["base64"] = "" /\ eresult["ascii"] = ""

(***************************************************************************)
(* login.py: run_extract_qr and run_full_login                             *)
(*                                                                         *)
(* rpc is "idle" before the run, "navigate" before navigate_to_login,      *)
(* "extract" before and "extracting" during extract_from_page, "login"     *)
(* before and "logging" during wait_for_login_complete, "save" and         *)
(* "insert" before the two store operations of save_credentials,           *)
(* "trigger" before trigger_signature_pages, "traverse" before             *)
(* traverse_feed_channels, "settle" before the wait of line 148,           *)
(* "save_signatures" before save_all_signatures, "done" once the run has   *)
(* returned and "raised" once an exception has left it.                    *)
(***************************************************************************)

\* config.py line 15
LOGIN_TIMEOUT_SECONDS == 180

\* the run whose save_credentials call run_full_login makes
ThisRun == "run1"

\* login.py lines 65-71
InitialRunResult ==
    ("success" :> FALSE) @@ ("user_id" :> None) @@ ("cookie_count" :> 0)
    @@ ("signatures_captured" :> <<>>) @@ ("error" :> None)

\* the keys of a dict as a list
RECURSIVE KeyOrder(_)
KeyOrder(S) ==
    IF S = {} THEN <<>>
    ELSE LET k == CHOOSE x \in S : TRUE
         IN  <<k>> \o KeyOrder(S \ {k})

\* signature.py lines 124-126: save_signature for every captured bundle
RECURSIVE SaveSignatures(_, _, _)
SaveSignatures(coll, sigs, keys) ==
    IF keys = <<>> THEN coll
    ELSE SaveSignatures(
             UpdateOneUpsert(coll, Head(keys),
                             SignatureFields(Head(keys), sigs[Head(keys)])),
             sigs, Tail(keys))

\* lines 74-80 with the handler never attached
AfterSetupNavigateFirst(m) == "navigate"

\* where the run goes once the page exists: run_full_login attaches the
\* request handler (lines 79-80), run_extract_qr has none (lines 43-47)
AfterSetup(m) == IF m = "login" THEN "attach" ELSE "navigate"

\* login.py lines 85, 108, 119 and 162 with the browser closed on success only
CloseOnReturnSuccessOnly(path) == path # "success"

\* login.py lines 50, 85, 108, 119 and 162: await browser.close() stands
\* before every return; the value is whether the browser is left open
CloseOnReturn(path) == FALSE

\* the run starts: login.py lines 41-45 and 65-76, the browser is launched
\* and a blank page opened
RunStart(m) ==
    /\ rpc = "idle"
    /\ rpc' = AfterSetup(m)
    /\ browser_open' = TRUE
    /\ UNCHANGED <<handler_on, missed, observed_at_save>>
    /\ mode' = m
    /\ run_result' = IF m = "login" THEN InitialRunResult ELSE EmptyDict
    /\ UNCHANGED <<nav, capture_started>>
    /\ UNCHANGED <<storeVars, sigStoreVars, captureVars, sessionVars>>

\* login.py lines 84, 107 and 118 with one message for every failure
FailureErrorGeneric(stage) == "Login failed"

\* login.py lines 84, 107 and 118: result["error"] of a failed run
FailureError(stage) ==
    CASE stage = "navigate" -> "Failed to navigate to login"
      [] stage = "extract" -> "Failed to extract QR code"
      [] stage = "login" -> "Login timeout or failed"

\* lines 83-86 without the return: the run goes on after a failed navigation
AfterNavigateAlwaysExtract(m, appeared) == "extract"

\* where the run goes after navigate_to_login: run_full_login lines 83-86
\* return on False, run_extract_qr line 47 goes on whatever it returns
AfterNavigate(m, appeared) ==
    IF m = "login" /\ ~appeared THEN "done" ELSE "extract"

\* login.py lines 79-80: page.on("request", sig_capture.create_request_handler())
RunAttach ==
    /\ rpc = "attach"
    /\ rpc' = "navigate"
    /\ handler_on' = TRUE
    /\ UNCHANGED <<missed, browser_open, observed_at_save>>
    /\ UNCHANGED <<mode, nav, run_result, capture_started>>
    /\ UNCHANGED <<storeVars, sigStoreVars, captureVars, sessionVars>>

\* browser.py lines 127-137 and its call: the login modal appears within the
\* wait of line 134 or not
RunNavigate(appeared) ==
    /\ rpc = "navigate"
    /\ IF close_error # ""
       THEN /\ rpc' = "raised"
            /\ UNCHANGED <<nav, run_result, page_url, qr_visible>>
       ELSE /\ page_url' = XHS_EXPLORE_URL
            /\ qr_visible' = appeared
            /\ nav' = IF appeared THEN "ok" ELSE "failed"
            /\ rpc' = AfterNavigate(mode, appeared)
            /\ run_result' = IF mode = "login" /\ ~appeared
                             THEN SetItem(run_result, "error", Some(FailureError("navigate")))
                             ELSE run_result
    /\ UNCHANGED <<mode, capture_started, avatar, jar, close_error>>
    /\ UNCHANGED <<storeVars, sigStoreVars, captureVars, monitorVars,
                   detectorVars, extractVars>>

\* login.py lines 48 and 89: extract_from_page is called
RunExtract ==
    /\ rpc = "extract"
    /\ ExtractEnter
    /\ rpc' = "extracting"
    /\ UNCHANGED <<mode, nav, run_result, capture_started>>
    /\ UNCHANGED <<storeVars, sigStoreVars, captureVars, browserVars,
                   monitorVars, detectorVars>>

\* a step of extract_from_page within the run
RunExtractStep ==
    /\ rpc = "extracting"
    /\ ExtractStep
    /\ UNCHANGED runVars
    /\ UNCHANGED <<storeVars, sigStoreVars, captureVars, browserVars,
                   monitorVars, detectorVars>>

\* login.py lines 50-51 and 91-109: extract_from_page is over
RunAfterExtract ==
    /\ rpc = "extracting"
    /\ ExtractOver
    /\ IF epc = "raised"
       THEN rpc' = "raised" /\ UNCHANGED run_result
       ELSE IF mode = "extract-qr"
       THEN rpc' = "done" /\ run_result' = eresult
       ELSE IF eresult["success"]
       THEN rpc' = "login" /\ UNCHANGED run_result
       ELSE /\ rpc' = "done"
            /\ run_result' = SetItem(run_result, "error", Some(FailureError("extract")))
    \* the call is over: of its locals only the returned result lives on
    /\ attempt' = 0
    /\ last_rejected' = NoCandidate
    /\ UNCHANGED <<qr_src, epc, eresult>>
    /\ UNCHANGED <<mode, nav, capture_started>>
    /\ UNCHANGED <<storeVars, sigStoreVars, captureVars, browserVars,
                   monitorVars, detectorVars>>

\* lines 117-129 without the test of login_result["success"]
AfterLoginAlwaysSave(login_result) == "save"

\* login.py lines 117-129: where the run goes with what the detector returned
AfterLogin(login_result) == IF login_result["success"] THEN "save" ELSE "done"

\* login.py line 115: wait_for_login_complete is called
RunLogin ==
    /\ rpc = "login"
    /\ LoginEnter(LOGIN_TIMEOUT_SECONDS)
    /\ rpc' = "logging"
    /\ UNCHANGED <<mode, nav, run_result, capture_started>>
    /\ UNCHANGED <<storeVars, sigStoreVars, captureVars, browserVars,
                   monitorVars, extractVars>>

\* a step of wait_for_login_complete within the run
RunLoginStep ==
    /\ rpc = "logging"
    /\ LoginStep
    /\ UNCHANGED runVars
    /\ UNCHANGED <<storeVars, sigStoreVars, captureVars, browserVars,
                   monitorVars, extractVars>>

\* login.py lines 117-120: wait_for_login_complete is over
RunAfterLogin ==
    /\ rpc = "logging"
    /\ LoginOver
    /\ IF lpc = "raised"
       THEN rpc' = "raised" /\ UNCHANGED run_result
       ELSE /\ rpc' = AfterLogin(result)
            /\ run_result' = IF result["success"] THEN run_result
                             ELSE SetItem(run_result, "error", Some(FailureError("login")))
    \* the call is over: of its locals only the returned result lives on
    /\ polls' = 0
    /\ max_polls' = 0
    /\ initial_web_session' = None
    /\ feed_at_poll' = FALSE
    /\ jar_at_confirm' = <<>>
    /\ UNCHANGED <<lpc, result>>
    /\ UNCHANGED <<mode, nav, capture_started>>
    /\ UNCHANGED <<storeVars, sigStoreVars, captureVars, browserVars,
                   monitorVars, extractVars>>

\* login.py lines 127-129: save_credentials, up to update_many
RunSaveInvalidate ==
    /\ rpc = "save"
    /\ SaveCredentialsInvalidate(ThisRun, result["cookies"], x_s_common)
    /\ rpc' = "insert"
    /\ UNCHANGED <<mode, nav, run_result, capture_started>>

\* login.py line 129: the rest of save_credentials
RunSaveInsert ==
    /\ rpc = "insert"
    /\ SaveCredentialsInsert(ThisRun)
    /\ rpc' = "trigger"
    /\ UNCHANGED <<mode, nav, run_result, capture_started>>

\* login.py line 129: a store operation of save_credentials raises (the store
\* is unreachable or rejects the write); nothing around the call catches it
RunSaveCredentialsFails ==
    /\ rpc \in {"save", "insert"}
    /\ rpc' = "store_raised"
    /\ pc' = [pc EXCEPT ![ThisRun] = "idle"]
    /\ args' = [args EXCEPT ![ThisRun] = <<>>]
    /\ UNCHANGED <<credentials, last_call>>
    /\ UNCHANGED <<mode, nav, run_result, capture_started>>
    /\ UNCHANGED <<sigStoreVars, captureVars, sessionVars>>

\* login.py line 137: trigger_signature_pages, which catches what its
\* navigation raises (browser.py lines 254-299)
RunTrigger ==
    /\ rpc = "trigger"
    /\ rpc' = "traverse"
    /\ capture_started' = TRUE
    /\ page_url' = IF close_error = "" THEN XHS_EXPLORE_URL ELSE page_url
    /\ UNCHANGED <<mode, nav, run_result, avatar, jar, close_error, qr_visible>>
    /\ UNCHANGED <<storeVars, sigStoreVars, captureVars, monitorVars,
                   detectorVars, extractVars>>

\* login.py lines 141-146: traverse_feed_channels; what its first navigation
\* raises (browser.py lines 316-318) is caught by the run
RunTraverse ==
    /\ rpc = "traverse"
    /\ rpc' = "settle"
    /\ page_url' = IF close_error = "" /\ ~Contains(page_url, "/explore")
                   THEN XHS_EXPLORE_URL ELSE page_url
    /\ UNCHANGED <<mode, nav, run_result, capture_started, avatar, jar,
                   close_error, qr_visible>>
    /\ UNCHANGED <<storeVars, sigStoreVars, captureVars, monitorVars,
                   detectorVars, extractVars>>

\* login.py line 148: the wait before the signatures are saved
RunSettle ==
    /\ rpc = "settle"
    /\ rpc' = IF close_error = "" THEN "save_signatures" ELSE "raised"
    /\ UNCHANGED <<mode, nav, run_result, capture_started>>
    /\ UNCHANGED <<storeVars, sigStoreVars, captureVars, sessionVars>>

\* login.py lines 151-168: save_all_signatures and the return
RunSaveSignatures ==
    /\ rpc = "save_signatures"
    /\ LET saved_endpoints == KeyOrder(DOMAIN signatures)
           cookies == result["cookies"]
       IN  /\ api_signatures' = SaveSignatures(api_signatures, signatures, saved_endpoints)
           /\ last_sig' = [k \in DOMAIN signatures \cup DOMAIN last_sig |->
                              IF k \in DOMAIN signatures THEN signatures[k] ELSE last_sig[k]]
           /\ run_result' =
                  ("success" :> TRUE) @@ ("user_id" :> Some(UserId(cookies)))
                  @@ ("cookie_count" :> Cardinality(DOMAIN cookies))
                  @@ ("signatures_captured" :> saved_endpoints) @@ run_result
    /\ rpc' = "done"
    /\ UNCHANGED <<mode, nav, capture_started>>
    /\ UNCHANGED <<storeVars, captureVars, sessionVars>>

\* login.py line 151: a save_signature call of save_all_signatures raises
\* after n bundles have been saved; nothing around the call catches it
RunSaveSignaturesFails(n) ==
    /\ rpc = "save_signatures"
    /\ n < Cardinality(DOMAIN signatures)
    /\ LET saved == SubSeq(KeyOrder(DOMAIN signatures), 1, n)
       IN  /\ api_signatures' = SaveSignatures(api_signatures, signatures, saved)
           /\ last_sig' = [k \in {saved[i] : i \in DOMAIN saved} \cup DOMAIN last_sig |->
                              IF k \in {saved[i] : i \in DOMAIN saved}
                              THEN signatures[k] ELSE last_sig[k]]
    /\ rpc' = "store_raised"
    /\ UNCHANGED <<mode, nav, run_result, capture_started>>
    /\ UNCHANGED <<storeVars, captureVars, sessionVars>>

\* whether the run is over
RunOver == rpc \in {"idle", "done", "raised", "store_raised"}

\* the src values of the QR image during a run
RunQrSources == {Missing, Some(SrcPlaceholder), Some(SrcReal)}

\* bound: the requests the handler of line 80 sees during a run
MaxRunObserved == 2

\* requests of the page during a run
RunRequests ==
    { Request(UrlUserMe, "GET", HeadersFull1, None),
      Request(UrlHomeFeed, "POST", HeadersFull2, Some(FeedBody("homefeed_recommend"))) }

\* the page, once a navigation has been started, issues a request: the
\* handler registered at line 80 is passed it, if it is registered
RunHandleRequest(request) ==
    /\ mode = "login"
    /\ ~RunOver
    /\ rpc \notin {"attach"}
    /\ close_error = ""
    /\ IF handler_on
       THEN /\ Len(observed) < MaxRunObserved
            /\ HandleRequest(request)
            /\ UNCHANGED missed
       ELSE /\ ~missed
            /\ missed' = TRUE
            /\ UNCHANGED <<storeVars, sigStoreVars, captureVars, sessionVars>>
    /\ UNCHANGED <<handler_on, browser_open, observed_at_save>>
    /\ UNCHANGED runVars

\* what the browser does during a run
RunBrowser ==
    /\ \/ rpc = "extracting" /\ \E src \in RunQrSources : PageSetsQr(src)
                             /\ UNCHANGED browserVars
       \/ rpc = "logging" /\ SiteRedirects /\ UNCHANGED qr_src
       \/ rpc = "logging" /\ SiteSetsSession("user1") /\ UNCHANGED qr_src
       \/ ~RunOver /\ (\E message \in CloseErrors : BrowserCloses(message))
                   /\ UNCHANGED qr_src
    /\ UNCHANGED <<epc, attempt, eresult, last_rejected>>
    /\ UNCHANGED <<storeVars, sigStoreVars, captureVars, monitorVars,
                   detectorVars, runVars>>

\* the run has returned by the path named, or goes on
Returns(path) ==
    /\ browser_open' = IF rpc' = "done" THEN CloseOnReturn(path) ELSE browser_open
    /\ UNCHANGED <<handler_on, missed, observed_at_save>>

\* One run of login.py in either mode.
NextRun ==
    \/ \E m \in {"login", "extract-qr"} : RunStart(m)
    \/ RunAttach
    \/ (\E appeared \in BOOLEAN : RunNavigate(appeared)) /\ Returns("navigate")
    \/ RunExtract /\ UNCHANGED runAuxVars
    \/ RunExtractStep /\ UNCHANGED runAuxVars
    \/ RunAfterExtract /\ Returns("extract")
    \/ RunLogin /\ UNCHANGED runAuxVars
    \/ RunLoginStep /\ UNCHANGED runAuxVars
    \/ RunAfterLogin /\ Returns("login")
    \/ /\ RunSaveInvalidate
       /\ observed_at_save' = Len(observed)
       /\ UNCHANGED <<handler_on, missed, browser_open>>
    \/ RunSaveInsert /\ UNCHANGED runAuxVars
    \/ RunTrigger /\ UNCHANGED runAuxVars
    \/ RunTraverse /\ UNCHANGED runAuxVars
    \/ RunSettle /\ UNCHANGED runAuxVars
    \/ RunSaveSignatures /\ Returns("success")
    \/ RunSaveCredentialsFails /\ UNCHANGED runAuxVars
    \/ (\E n \in 0..MaxRunObserved : RunSaveSignaturesFails(n)) /\ UNCHANGED runAuxVars
    \/ \E request \in RunRequests : RunHandleRequest(request)
    \/ RunBrowser /\ UNCHANGED runAuxVars

SpecRun == Init /\ [][NextRun /\ UNCHANGED <<traverseVars, asciiVars, lateVars>>]_vars

\* C19: when navigate_to_login returned False the run does not call
\* extract_from_page: it ends as failed.
C19_NoExtractAfterFailedNavigate ==
    nav = "failed" => (epc = "idle" /\ rpc \in {"done", "raised"})

\* C20: the run writes the credentials collection only in its
\* save_credentials call, which starts only after wait_for_login_complete
\* returned success with the status confirmed and before
\* trigger_signature_pages is called; the run saves at most once, exactly
\* once when it gets past the call, with the cookies the detector returned;
\* and from then on, whatever the signature capture does, the record stays
\* in the store and valid.
C20_SavedOnceAfterConfirmed ==
    [][ /\ (credentials' # credentials)
            => /\ rpc \in {"save", "insert"}
               /\ lpc = "done"
               /\ result["success"] = TRUE
               /\ result["status"] = "confirmed"
               /\ ~capture_started
               /\ ~capture_started'
        /\ Len(credentials') <= 1
        /\ (rpc' \in {"trigger", "traverse", "settle", "save_signatures"} \/ capture_started')
            => /\ Len(credentials') = 1
               /\ credentials'[1].is_valid
               /\ credentials'[1].cookies = result'["cookies"]
               /\ credentials'[1].x_s_common = last_call'[2] ]_vars

\* C20 witness: the browser was lost during the signature capture, the run
\* raised at the wait of line 148, and the saved record is still valid
C20_Witness_CaptureFailed ==
    /\ rpc = "raised"
    /\ capture_started
    /\ close_error # ""
    /\ Len(credentials) = 1
    /\ credentials[1].is_valid
    /\ credentials[1].cookies = result["cookies"]
    /\ credentials[1].user_id = "dev1user1"

\* the run has reached a failure: navigate_to_login returned False, or
\* extract_from_page or wait_for_login_complete returned without success
RunFailed ==
    /\ mode = "login"
    /\ \/ nav = "failed"
       \/ epc = "done" /\ eresult["success"] = FALSE
       \/ lpc = "done" /\ result["success"] = FALSE

\* C21: a run that has reached a failure stays failed, saves no credentials,
\* starts no signature capture, saves no signatures, and when it returns it
\* returns success = false.
C21_FailureAbsorbing ==
    [][ /\ RunFailed => RunFailed'
        /\ RunFailed' =>
              /\ credentials' = <<>>
              /\ pc'[ThisRun] = "idle"
              /\ api_signatures' = <<>>
              /\ ~capture_started'
              /\ rpc' \in {"extracting", "logging", "done"}
              /\ rpc' = "done" => run_result'["success"] = FALSE ]_vars

\* C21 witness: the detector returned cancelled and the run has returned
C21_Witness_CancelledRun ==
    /\ rpc = "done"
    /\ lpc = "done"
    /\ result["status"] = "cancelled"
    /\ run_result["success"] = FALSE
    /\ credentials = <<>>

\* C22: a run that returns after a failed extraction reports "Failed to
\* extract QR code", a run that returns after a wait that ran out of polls
\* reports "Login timeout or failed", and both leave the two collections as
\* they were.
C22_ExtractionAndTimeoutDistinct ==
    (mode = "login" /\ rpc = "done") =>
        /\ (epc = "done" /\ eresult["success"] = FALSE)
              => /\ run_result["error"] = Some("Failed to extract QR code")
                 /\ run_result["success"] = FALSE
                 /\ credentials = <<>> /\ api_signatures = <<>>
        /\ (lpc = "done" /\ result["status"] = "waiting")
              => /\ run_result["error"] = Some("Login timeout or failed")
                 /\ run_result["success"] = FALSE
                 /\ credentials = <<>> /\ api_signatures = <<>>

\* C22 witness: the wait ran out of polls and the run has returned
C22_Witness_TimedOutRun ==
    /\ rpc = "done"
    /\ lpc = "done"
    /\ result["status"] = "waiting"
    /\ eresult["success"] = TRUE
    /\ run_result["error"] = Some("Login timeout or failed")

\* C23: a run whose detector returned cancelled does not report what a run
\* reports whose detector ran out of polls.
C23_CancelledNotReportedAsTimeout ==
    (mode = "login" /\ rpc = "done" /\ lpc = "done" /\ result["status"] = "cancelled")
        => run_result["error"] # Some("Login timeout or failed")

\* the endpoint ids of the observed requests that resolve
ObservedIds == {ResolvedId(observed[j]) : j \in {i \in DOMAIN observed : Resolves(observed[i])}}

\* C27: once the signature capture has started the run does not raise, and
\* the run of a confirmed login returns success = true with
\* signatures_captured listing, once each, the endpoint ids of the observed
\* requests that resolve.
C27_SuccessWhateverCaptured ==
    /\ ~(capture_started /\ rpc = "raised")
    /\ (rpc = "done" /\ lpc = "done" /\ result["status"] = "confirmed")
          => /\ run_result["success"] = TRUE
             /\ LET captured == run_result["signatures_captured"]
                IN  /\ {captured[i] : i \in DOMAIN captured} = ObservedIds
                    /\ Len(captured) = Cardinality(ObservedIds)

\* C28: no failure of a store write makes the run end without a result.
C28_StoreFailureStillReturns == rpc # "store_raised"

(***************************************************************************)
(* browser.py: the capture functions that click and look for a response:   *)
(* traverse_feed_channels, trigger_signature_pages (search_trending),      *)
(* trigger_notification_signatures (notification_connections) and          *)
(* trigger_note_page_signature (note_page).                                *)
(*                                                                         *)
(* tpc is "idle" before the call, "locate" before the element of a channel *)
(* or selector is looked up, "register" before page.expect_response,       *)
(* "click" before the click, "wait" at the fixed waits after a click of    *)
(* the traversal, "await" at the end of an expect_response block, "log"    *)
(* before the success message of the traversal, "delay" at its delay,      *)
(* "finish" at the statements after the interaction, "done" once the call  *)
(* has returned and "raised" once an exception has left it.  last_log is   *)
(* the outcome the function printed last: "success", "not_found" or        *)
(* "failed".                                                               *)
(***************************************************************************)

\* config.py line 12
XHS_NOTIFICATION_URL == "https://www.xiaohongshu.com/notification"

\* ENDPOINT_PATTERNS[endpoint]
PatternOf(endpoint) ==
    ENDPOINT_PATTERNS[CHOOSE i \in DOMAIN ENDPOINT_PATTERNS :
                          ENDPOINT_PATTERNS[i][1] = endpoint][2]

\* a response of the site: category is the category of the feed request it
\* answers, None for other requests
PageResponse(url, status, category) ==
    [url |-> url, status |-> status, category |-> category]

ApiHost == "https://edith.xiaohongshu.com"

\* the capture functions with an expect_response block
AuxKinds == {"search_trending", "notification_connections", "note_page"}

\* browser.py lines 261-267 and 434-440: the selectors tried in turn
SelectorCount(kind) ==
    CASE kind = "search_trending" -> 5
      [] kind = "note_page" -> 4
      [] kind = "notification_connections" -> 1

\* browser.py lines 275-276, 387-390, 457-461: the predicates given to expect_response
AuxPredicate(kind, response) ==
    Contains(response.url, PatternOf(kind)) /\ response.status = 200

\* browser.py lines 304-307 and config.py lines 60-61: the response a channel
\* is to be captured by: the feed endpoint, status 200, the channel's category
ChannelExpected(channel, response) ==
    /\ Contains(response.url, PatternOf("home_feed"))
    /\ response.status = 200
    /\ response.category = Some(CHANNEL_MAP[channel])

\* the response the interaction at hand expects
Expected(response) ==
    IF capture = "traverse"
    THEN cidx \in DOMAIN FEED_CHANNELS /\ ChannelExpected(FEED_CHANNELS[cidx], response)
    ELSE AuxPredicate(capture, response)

\* what the site may answer to the click at hand
ClickResponses ==
    IF capture = "traverse"
    THEN IF cidx \in DOMAIN FEED_CHANNELS
         THEN { PageResponse(ApiHost \o PatternOf("home_feed"), 200,
                             Some(CHANNEL_MAP[FEED_CHANNELS[cidx]])),
                PageResponse(ApiHost \o PatternOf("home_feed"), 500,
                             Some(CHANNEL_MAP[FEED_CHANNELS[cidx]])),
                PageResponse(ApiHost \o PatternOf("home_feed"), 200,
                             Some("homefeed.other_v3")) }
         ELSE {}
    ELSE IF capture \in AuxKinds
    THEN { PageResponse(ApiHost \o PatternOf(capture), 200, None),
           PageResponse(ApiHost \o PatternOf(capture), 500, None),
           PageResponse(ApiHost \o PatternOf("user_me"), 200, None) }
    ELSE {}

\* the site answers the request of the last click
SiteResponds(response) ==
    /\ pending
    /\ close_error = ""
    /\ pending' = FALSE
    /\ waiter_hit' = (waiter_hit \/ (waiter # None /\ AuxPredicate(waiter[1], response)))
    /\ matched_seen' = (matched_seen \/ Expected(response))
    /\ UNCHANGED <<capture, tpc, cidx, waiter, attempted, last_log, outcomes>>

\* a message of the capture function
Log(name, outcome) ==
    /\ last_log' = <<name, outcome>>
    /\ outcomes' = outcomes \cup {outcome}

\* lines 330-332 and 356-358, with a failed channel ending the loop
AfterChannelAbort(i, outcome) ==
    IF outcome = "success" THEN i + 1 ELSE Len(FEED_CHANNELS) + 1

\* lines 330-332 (continue) and 356-358 (pass): the loop goes to the next channel
AfterChannel(i, outcome) == i + 1

\* traverse_feed_channels lines 309-318: the call starts
TraverseEnter ==
    /\ tpc = "idle"
    /\ capture' = "traverse"
    /\ IF Contains(page_url, "/explore")
       THEN tpc' = "locate" /\ UNCHANGED page_url
       ELSE IF close_error # ""
       THEN tpc' = "raised" /\ UNCHANGED page_url
       ELSE tpc' = "locate" /\ page_url' = XHS_EXPLORE_URL
    /\ cidx' = 1
    /\ UNCHANGED <<waiter, waiter_hit, pending, matched_seen, attempted,
                   last_log, outcomes>>

\* lines 320-332 and 360: the loop head and the lookup of the channel's tab
TraverseLocate(visible) ==
    /\ tpc = "locate"
    /\ capture = "traverse"
    /\ IF cidx > Len(FEED_CHANNELS)
       THEN /\ tpc' = "done"
            /\ UNCHANGED <<cidx, attempted, last_log, outcomes, matched_seen, pending>>
       ELSE /\ attempted' = Append(attempted, FEED_CHANNELS[cidx])
            /\ matched_seen' = FALSE
            /\ pending' = FALSE
            /\ IF close_error # ""
               THEN /\ Log(FEED_CHANNELS[cidx], "failed")
                    /\ cidx' = AfterChannel(cidx, "failed")
                    /\ tpc' = "locate"
               ELSE IF ~visible
               THEN /\ Log(FEED_CHANNELS[cidx], "not_found")
                    /\ cidx' = AfterChannel(cidx, "not_found")
                    /\ tpc' = "locate"
               ELSE /\ tpc' = "click"
                    /\ UNCHANGED <<cidx, last_log, outcomes>>
    /\ UNCHANGED <<capture, waiter, waiter_hit, page_url>>

\* lines 334-335: the click on the tab; nothing is registered before it
TraverseClick(ok) ==
    /\ tpc = "click"
    /\ capture = "traverse"
    /\ IF close_error # "" \/ ~ok
       THEN /\ Log(FEED_CHANNELS[cidx], "failed")
            /\ cidx' = AfterChannel(cidx, "failed")
            /\ tpc' = "locate"
            /\ UNCHANGED pending
       ELSE /\ pending' = TRUE
            /\ tpc' = "wait"
            /\ UNCHANGED <<cidx, last_log, outcomes>>
    /\ UNCHANGED <<capture, waiter, waiter_hit, matched_seen, attempted, page_url>>

\* lines 337-348: the fixed waits and the scroll after the click
TraverseWait ==
    /\ tpc = "wait"
    /\ capture = "traverse"
    /\ IF close_error # ""
       THEN /\ Log(FEED_CHANNELS[cidx], "failed")
            /\ cidx' = AfterChannel(cidx, "failed")
            /\ tpc' = "locate"
       ELSE /\ tpc' = "log"
            /\ UNCHANGED <<cidx, last_log, outcomes>>
    /\ UNCHANGED <<capture, waiter, waiter_hit, pending, matched_seen, attempted,
                   page_url>>

\* line 350: the success message, printed whatever has arrived
TraverseLog ==
    /\ tpc = "log"
    /\ capture = "traverse"
    /\ Log(FEED_CHANNELS[cidx], "success")
    /\ tpc' = "delay"
    /\ UNCHANGED <<capture, cidx, waiter, waiter_hit, pending, matched_seen,
                   attempted, page_url>>

\* lines 352-358: the delay before the next channel
TraverseDelay ==
    /\ tpc = "delay"
    /\ capture = "traverse"
    /\ IF close_error # ""
       THEN /\ Log(FEED_CHANNELS[cidx], "failed")
            /\ cidx' = AfterChannel(cidx, "failed")
       ELSE /\ cidx' = AfterChannel(cidx, "success")
            /\ UNCHANGED <<last_log, outcomes>>
    /\ tpc' = "locate"
    /\ UNCHANGED <<capture, waiter, waiter_hit, pending, matched_seen, attempted,
                   page_url>>

\* a step of traverse_feed_channels
TraverseStep ==
    \/ TraverseEnter
    \/ \E visible \in BOOLEAN : TraverseLocate(visible)
    \/ \E ok \in BOOLEAN : TraverseClick(ok)
    \/ TraverseWait
    \/ TraverseLog
    \/ TraverseDelay

\* lines 254-257, 378-380, 426-428: the call starts and navigates; only
\* trigger_signature_pages does so inside its try
AuxEnter(kind) ==
    /\ tpc = "idle"
    /\ capture' = kind
    /\ cidx' = 1
    /\ IF kind = "note_page" /\ Contains(page_url, "/explore")
       THEN tpc' = "locate" /\ UNCHANGED page_url
       ELSE IF close_error # ""
       THEN /\ tpc' = IF kind = "search_trending" THEN "done" ELSE "raised"
            /\ UNCHANGED page_url
       ELSE /\ tpc' = "locate"
            /\ page_url' = IF kind = "notification_connections"
                           THEN XHS_NOTIFICATION_URL ELSE XHS_EXPLORE_URL
    /\ UNCHANGED <<waiter, waiter_hit, pending, matched_seen, attempted,
                   last_log, outcomes>>

\* an interaction of an expect_response block has failed: lines 284-285
\* (continue with the next selector), 405-406 (the function ends), 465-466
AuxInteractionFailed ==
    /\ waiter' = None
    /\ CASE capture = "search_trending" ->
                /\ cidx' = cidx + 1
                /\ tpc' = "locate"
                /\ UNCHANGED <<last_log, outcomes>>
         [] capture = "notification_connections" ->
                /\ Log(capture, "failed")
                /\ tpc' = "done"
                /\ UNCHANGED cidx
         [] capture = "note_page" ->
                /\ Log(capture, "failed")
                /\ tpc' = "finish"
                /\ UNCHANGED cidx

\* lines 270-273, 393-395, 448-455: the lookup of the element to click
AuxLocate(visible) ==
    /\ tpc = "locate"
    /\ capture \in AuxKinds
    /\ IF cidx > SelectorCount(capture)
       THEN /\ Log(capture, "not_found")
            /\ tpc' = "finish"
            /\ UNCHANGED <<cidx, matched_seen>>
       ELSE IF close_error # ""
       THEN /\ UNCHANGED matched_seen
            /\ IF capture = "notification_connections"
               THEN Log(capture, "failed") /\ tpc' = "done" /\ UNCHANGED cidx
               ELSE /\ cidx' = cidx + 1
                    /\ tpc' = "locate"
                    /\ UNCHANGED <<last_log, outcomes>>
       ELSE IF ~visible
       THEN /\ UNCHANGED matched_seen
            /\ IF capture = "notification_connections"
               THEN Log(capture, "not_found") /\ tpc' = "finish" /\ UNCHANGED cidx
               ELSE /\ cidx' = cidx + 1
                    /\ tpc' = "locate"
                    /\ UNCHANGED <<last_log, outcomes>>
       ELSE /\ tpc' = "register"
            /\ matched_seen' = FALSE
            /\ UNCHANGED <<cidx, last_log, outcomes>>
    /\ UNCHANGED <<capture, waiter, waiter_hit, pending, attempted, page_url>>

\* lines 278, 396, 461: async with page.expect_response(predicate, timeout)
AuxRegister ==
    /\ tpc = "register"
    /\ capture \in AuxKinds
    /\ waiter' = Some(capture)
    /\ waiter_hit' = FALSE
    /\ pending' = FALSE
    /\ tpc' = "click"
    /\ UNCHANGED <<capture, cidx, matched_seen, attempted, last_log, outcomes,
                   page_url>>

\* lines 279, 397, 462: the click inside the block
AuxClick(ok) ==
    /\ tpc = "click"
    /\ capture \in AuxKinds
    /\ IF close_error # "" \/ ~ok
       THEN AuxInteractionFailed /\ UNCHANGED pending
       ELSE /\ pending' = TRUE
            /\ tpc' = "await"
            /\ UNCHANGED <<cidx, waiter, last_log, outcomes>>
    /\ UNCHANGED <<capture, waiter_hit, matched_seen, attempted, page_url>>

\* the end of the block: the registered response has arrived, or the
\* timeout of the block passes without it (lines 281-283, 398, 464)
AuxAwait ==
    /\ tpc = "await"
    /\ capture \in AuxKinds
    /\ IF waiter_hit
       THEN /\ Log(capture, "success")
            /\ waiter' = None
            /\ tpc' = "finish"
            /\ UNCHANGED cidx
       ELSE AuxInteractionFailed
    /\ UNCHANGED <<capture, waiter_hit, pending, matched_seen, attempted, page_url>>

\* lines 290-299, 402-408, 468-487: the statements after the interaction;
\* only the last wait of trigger_note_page_signature stands outside a try
AuxFinish ==
    /\ tpc = "finish"
    /\ capture \in AuxKinds
    /\ IF close_error = ""
       THEN /\ tpc' = "done"
            /\ page_url' = IF capture = "search_trending" THEN XHS_EXPLORE_URL ELSE page_url
            /\ UNCHANGED <<last_log, outcomes>>
       ELSE /\ UNCHANGED page_url
            /\ CASE capture = "search_trending" ->
                        tpc' = "done" /\ UNCHANGED <<last_log, outcomes>>
                 [] capture = "notification_connections" ->
                        tpc' = "done" /\ Log(capture, "failed")
                 [] capture = "note_page" ->
                        /\ tpc' = "raised"
                        /\ IF last_log[2] = "not_found"
                           THEN UNCHANGED <<last_log, outcomes>>
                           ELSE Log(capture, "failed")
    /\ UNCHANGED <<capture, cidx, waiter, waiter_hit, pending, matched_seen, attempted>>

\* a step of one of the three functions with an expect_response block
AuxStep ==
    \/ \E kind \in AuxKinds : AuxEnter(kind)
    \/ \E visible \in BOOLEAN : AuxLocate(visible)
    \/ AuxRegister
    \/ \E ok \in BOOLEAN : AuxClick(ok)
    \/ AuxAwait
    \/ AuxFinish

\* whether the capture function is over
CaptureOver == tpc \in {"done", "raised"}

\* One call of one capture function on a page that answers, or not, and may
\* be lost.
NextTraverse ==
    \/ TraverseStep /\ UNCHANGED <<avatar, jar, close_error, qr_visible>>
    \/ AuxStep /\ UNCHANGED <<avatar, jar, close_error, qr_visible>>
    \/ /\ ~CaptureOver
       /\ \E response \in ClickResponses : SiteResponds(response)
       /\ UNCHANGED browserVars
    \/ /\ ~CaptureOver
       /\ SiteRedirects \/ (\E message \in CloseErrors : BrowserCloses(message))
       /\ UNCHANGED traverseVars

SpecTraverse ==
    Init /\ [][NextTraverse /\ UNCHANGED <<storeVars, sigStoreVars, captureVars,
                                           monitorVars, detectorVars, extractVars,
                                           runVars, asciiVars, runAuxVars,
                                           lateVars>>]_vars

\* whether s is an initial part of t
IsPrefix(s, t) == Len(s) <= Len(t) /\ s = SubSeq(t, 1, Len(s))

\* C24: the channels attempted so far are an initial part of FEED_CHANNELS;
\* when traverse_feed_channels has returned every channel has been attempted
\* once, in list order; and the call raises only before it has attempted any
\* channel, so no channel's outcome keeps a later channel from its attempt.
C24_EveryChannelAttempted ==
    capture = "traverse" =>
        /\ IsPrefix(attempted, FEED_CHANNELS)
        /\ tpc = "done" => attempted = FEED_CHANNELS
        /\ tpc = "raised" => attempted = <<>>
        /\ tpc \in {"click", "wait", "log", "delay"} => cidx = Len(attempted)

\* C24 witness: the traversal has returned on a reachable browser after
\* channels that were not found, channels that failed and channels that went
\* through, the last one among them
C24_Witness_MixedOutcomes ==
    /\ capture = "traverse"
    /\ tpc = "done"
    /\ close_error = ""
    /\ outcomes = {"success", "not_found", "failed"}
    /\ last_log = <<"fitness", "success">>
    /\ attempted = FEED_CHANNELS

\* C25: traverse_feed_channels prints the success message of a channel only
\* when the response that channel expects has arrived since its click.
C25_SuccessOnlyWithMatch ==
    [][ (capture = "traverse" /\ last_log' # last_log /\ last_log'[2] = "success")
            => matched_seen ]_vars

\* C26: every click of a capture function is issued while a wait for its
\* response is registered.
C26_WaitRegisteredBeforeClick ==
    [][ (~pending /\ pending') => waiter # None ]_vars

(***************************************************************************)
(* qr_code.py: base64_to_ascii on its own, over inputs of every kind and   *)
(* every behaviour of the libraries it calls.                              *)
(***************************************************************************)

\* side length of the module matrices the encoder may make
MatrixSize == 2

\* the module matrices of that size
Matrices == [1..MatrixSize -> [1..MatrixSize -> BOOLEAN]]

\* arguments of base64_to_ascii: nothing, bare base64, a data URI, a data
\* URI without data, a group cut short, a padded group, text with two commas
AsciiInputs ==
    {"", "AAAA", DataPrefix \o "AAAA", DataPrefix, "AAA", "AAA=", "x,AAAA,y"}

\* what the libraries may do in a call
AsciiEnvs ==
    {AsciiEnv(has_pyzbar, has_qrcode, image, decoded, modules) :
        has_pyzbar \in BOOLEAN, has_qrcode \in BOOLEAN,
        image \in {"ok", "raises"},
        decoded \in {<<>>, <<Some("https://xhs/qr/1")>>, <<None>>},
        modules \in {None} \cup {Some(m) : m \in Matrices}}

\* one call of base64_to_ascii
Base64ToAscii(base64_data, env) ==
    /\ ascii_in = <<>>
    /\ ascii_in' = <<base64_data, env>>
    /\ ascii_out' = Some(base64_to_ascii(base64_data, env))

NextAscii ==
    \E base64_data \in AsciiInputs, env \in AsciiEnvs : Base64ToAscii(base64_data, env)

SpecAscii ==
    Init /\ [][NextAscii /\ UNCHANGED <<storeVars, sigStoreVars, captureVars,
                                        sessionVars, runVars, traverseVars,
                                        runAuxVars, lateVars>>]_vars

\* the call at hand had an image from which a decoding backend read text
TextRecovered ==
    /\ ascii_in # <<>>
    /\ ascii_in[1] # ""
    /\ b64decode(AfterComma(ascii_in[1])) \notin {None, Some(0)}
    /\ ascii_in[2].HAS_PYZBAR
    /\ ascii_in[2].image = "ok"
    /\ ascii_in[2].decoded # <<>>
    /\ ascii_in[2].decoded[1] # None

\* the text is one glyph per module of the matrix, row by row
IsGridOf(text, modules) ==
    LET lines == Split(text, "\n")
    IN  /\ Len(lines) = Len(modules)
        /\ \A r \in 1..Len(modules) :
               /\ Len(lines[r]) = Len(modules[r])
               /\ \A c \in 1..Len(modules[r]) :
                      Ch(lines[r], c) = IF modules[r][c] THEN "#" ELSE " "

\* C29: a call of base64_to_ascii returns a string and raises nothing: the
\* bracketed message for an empty argument, and for a non-empty one either a
\* glyph grid or the placeholder block, the placeholder whenever no text was
\* recovered.
C29_NeverFailsHard ==
    ascii_in # <<>> =>
        /\ ascii_out # None
        /\ ascii_out[1] # Raised
        /\ ascii_in[1] = "" => ascii_out[1] = NoQrText
        /\ ascii_in[1] # "" =>
               \/ ascii_out[1] = simple_ascii_placeholder
               \/ /\ TextRecovered
                  /\ ascii_in[2].modules # None
                  /\ IsGridOf(ascii_out[1], ascii_in[2].modules[1])
        /\ (ascii_in[1] # "" /\ ~TextRecovered) => ascii_out[1] = simple_ascii_placeholder

\* C29 witness: both libraries are there, the text was read, the encoder
\* raised, and the call returned the placeholder
C29_Witness_EncoderRaises ==
    /\ TextRecovered
    /\ ascii_in[2].HAS_QRCODE
    /\ ascii_in[2].modules = None
    /\ ascii_out = Some(simple_ascii_placeholder)

\* C30 as stated: whenever a decoding backend is present and the text of the
\* image is recovered, the call returns a glyph grid and not the placeholder.
C30_GridWheneverTextRecovered ==
    TextRecovered => ascii_out[1] # simple_ascii_placeholder

\* C30: whenever the text of the image is recovered, the qrcode library is
\* present too and makes a matrix of the text, the call returns that matrix
\* with "#" for a dark module and a space for a light one, row by row; when
\* the text is recovered and qrcode is missing or raises, it returns the
\* placeholder.
C30_GridWhenEncoderPresent ==
    TextRecovered =>
        IF ascii_in[2].HAS_QRCODE /\ ascii_in[2].modules # None
        THEN /\ IsGridOf(ascii_out[1], ascii_in[2].modules[1])
             /\ ascii_out[1] # simple_ascii_placeholder
        ELSE ascii_out[1] = simple_ascii_placeholder

\* C30 witness: a data URI was read and re-encoded, and the grid returned has
\* a dark and a light module
C30_Witness_GridReturned ==
    /\ TextRecovered
    /\ ascii_in[1] = DataPrefix \o "AAAA"
    /\ ascii_in[2].HAS_QRCODE
    /\ ascii_in[2].modules = Some(<<<<TRUE, FALSE>>, <<FALSE, TRUE>>>>)
    /\ ascii_out = Some("# \n #")

C33_LoggedInIsStable ==
    [][ is_logged_in => is_logged_in' ]_vars

\* the discriminators of the channel table
ChannelCategories == {CHANNEL_MAP[c] : c \in DOMAIN CHANNEL_MAP}

\* the endpoint id of a signed feed request whose body carries the category
ChannelId(category) ==
    StorageEndpoint("home_feed", Some(FeedBody(category)))

\* C35: the endpoint ids of the eleven channel discriminators are pairwise
\* distinct, and a feed request that carries one channel's discriminator
\* leaves the bundle filed for every other channel in the signature map as
\* it is.
C35_ChannelIdsDistinct ==
    [][ /\ Cardinality(ChannelCategories) = Len(FEED_CHANNELS)
        /\ \A c1, c2 \in ChannelCategories : c1 # c2 => ChannelId(c1) # ChannelId(c2)
        /\ (observed' # observed /\ DecodedCategory(LastObserved') \in ChannelCategories)
              => \A c \in ChannelCategories \ {DecodedCategory(LastObserved')} :
                     ChannelId(c) \in DOMAIN signatures
                         => /\ ChannelId(c) \in DOMAIN signatures'
                            /\ signatures'[ChannelId(c)] = signatures[ChannelId(c)] ]_vars

\* C35 witness: the recommend channel and the fashion channel were captured
\* one after the other, and the map holds the bundle of each under its id
C35_Witness_TwoChannelsKept ==
    /\ Len(observed) = 2
    /\ DecodedCategory(observed[1]) = "homefeed_recommend"
    /\ DecodedCategory(observed[2]) = "homefeed.fashion_v3"
    /\ DOMAIN signatures = {"home_feed_recommend", "home_feed_fashion"}
    /\ signatures["home_feed_recommend"]["post_body"] = observed[1].post_data
    /\ signatures["home_feed_fashion"]["post_body"] = observed[2].post_data

\* C34: in a run of run_full_login the request handler is attached before
\* the first navigation is started and stays attached, and no request the
\* page issues goes by without being passed to it.
C34_HandlerBeforeNavigation ==
    mode = "login" =>
        /\ ~missed
        /\ rpc \notin {"idle", "attach"} => handler_on
        /\ (nav # "none" \/ page_url # XHS_EXPLORE_URL \/ capture_started) => handler_on

\* C34 witness: a request issued while the first navigation was under way
\* has been passed to the handler
C34_Witness_FirstRequestSeen ==
    /\ mode = "login"
    /\ rpc = "navigate"
    /\ nav = "none"
    /\ handler_on
    /\ Len(observed) = 1
    /\ DOMAIN signatures = {"user_me"}

\* the x-s-common values of the first n observed requests, in order
CommonsUpTo(n) ==
    SelectSeq([i \in 1..n |-> Get(observed[i].headers, "x-s-common", "")],
              LAMBDA c : c # "")

\* C36: once save_credentials has been called the stored record carries the
\* first of the longest x-s-common values observed before the call, and no
\* request observed afterwards changes the credentials collection.
C36_SavedCommonFixedAtSave ==
    [][ /\ (rpc' \in {"trigger", "traverse", "settle", "save_signatures"} \/ capture_started')
            => /\ Len(credentials') = 1
               /\ observed_at_save' <= Len(observed')
               /\ credentials'[1].x_s_common = FirstLongest(CommonsUpTo(observed_at_save)')
        /\ (observed' # observed /\ rpc \notin {"save", "insert"})
            => credentials' = credentials ]_vars

\* C36 witness: a short common header was observed before the save and a
\* longer one during the capture; the run is over, the handler tracks the
\* longer one and the stored record still carries the shorter
C36_Witness_LaterLongerIgnored ==
    /\ rpc = "done"
    /\ run_result["success"] = TRUE
    /\ Len(observed) = 2
    /\ observed_at_save = 1
    /\ x_s_common = "abcdef"
    /\ Len(credentials) = 1
    /\ credentials[1].x_s_common = "abc"

\* C37: a run of run_full_login that has returned a result has closed the
\* browser it launched.
C37_ClosedOnEveryReturn ==
    (mode = "login" /\ rpc = "done") => ~browser_open

\* C37 witness: the QR code could not be extracted from a reachable browser;
\* the run returned the error and closed the browser
C37_Witness_ClosedAfterFailedExtract ==
    /\ mode = "login"
    /\ rpc = "done"
    /\ close_error = ""
    /\ run_result["error"] = Some("Failed to extract QR code")
    /\ ~browser_open

(***************************************************************************)
(* client_demo.py: the decoding of the QR image in login_interactive.     *)
(*                                                                         *)
(* dpc is "idle" before the decoding, "primary" before the pyzbar block    *)
(* (line 101), "transform" before the OpenCV block (line 111), "strategy"  *)
(* at the head of the loop over the strategies (line 128) and "done" once  *)
(* line 141 is reached.  What a decoder does with the image is Raises,     *)
(* None (pyzbar found no symbol) or Some(text), the text possibly empty.   *)
(***************************************************************************)

\* lines 120-126: the names of the strategies, in the order of the list
strategies == <<"Raw", "Sharpen", "Resize 2x", "Gray", "Binary">>

\* a decoder raises an exception
Raises == <<"raises", "exception">>

\* the text a decoder recovers when it recovers one
TextOf(name) == name \o ":qr"

\* what a decoder may do with the image
DecoderOutcomes(name) ==
    {Raises, Some(""), Some(TextOf(name))}
    \cup (IF name = "pyzbar" THEN {None} ELSE {})

\* the libraries present (lines 8-20), whether lines 113-117 go through, and
\* what each decoder does
DecodeEnvs ==
    {[HAS_PYZBAR |-> p, HAS_OPENCV |-> o, setup |-> st, pyzbar |-> pz, cv |-> cv] :
        p \in BOOLEAN, o \in BOOLEAN, st \in {"ok", "raises"},
        pz \in DecoderOutcomes("pyzbar"),
        cv \in {f \in [1..Len(strategies) -> {Raises, Some(""), Some("qr")}] : TRUE}}

\* what strategy i does with the image
StrategyOutcome(env, i) ==
    IF env.cv[i] = Some("qr") THEN Some(TextOf(strategies[i])) ELSE env.cv[i]

\* bool(qr_content)
HasText(content) == content # None /\ content[1] # ""

\* lines 132-134 without the break
AfterStrategyNoBreak(i, text) == i + 1

\* lines 131-136: the index the loop goes on with after strategy i returned
\* text: past the list on a text (break), else the next strategy
AfterStrategy(i, text) == IF text # "" THEN Len(strategies) + 1 ELSE i + 1

\* lines 90-99: the image has arrived and the decoding starts
DecodeEnter(env) ==
    /\ dpc = "idle"
    /\ dpc' = "primary"
    /\ denv' = env
    /\ qr_content' = None
    /\ sidx' = 0
    /\ ran' = <<>>

\* lines 101-109: the pyzbar block
DecodePrimary ==
    /\ dpc = "primary"
    /\ dpc' = "transform"
    /\ IF denv.HAS_PYZBAR
       THEN /\ ran' = Append(ran, "pyzbar")
            /\ qr_content' = IF denv.pyzbar \in {Raises, None}
                             THEN qr_content ELSE denv.pyzbar
       ELSE UNCHANGED <<ran, qr_content>>
    /\ UNCHANGED <<denv, sidx>>

\* lines 111-117 and 138-139: the OpenCV block is entered, or not
DecodeTransform ==
    /\ dpc = "transform"
    /\ IF ~HasText(qr_content) /\ denv.HAS_OPENCV
       THEN IF denv.setup = "raises"
            THEN dpc' = "done" /\ UNCHANGED sidx
            ELSE dpc' = "strategy" /\ sidx' = 1
       ELSE dpc' = "done" /\ UNCHANGED sidx
    /\ UNCHANGED <<denv, qr_content, ran>>

\* lines 128-136: one iteration of the loop over the strategies
DecodeStrategy ==
    /\ dpc = "strategy"
    /\ IF sidx > Len(strategies)
       THEN dpc' = "done" /\ UNCHANGED <<sidx, qr_content, ran>>
       ELSE /\ ran' = Append(ran, strategies[sidx])
            /\ dpc' = "strategy"
            /\ LET outcome == StrategyOutcome(denv, sidx)
               IN  IF outcome = Raises
                   THEN sidx' = sidx + 1 /\ UNCHANGED qr_content
                   ELSE /\ qr_content' = outcome
                        /\ sidx' = AfterStrategy(sidx, outcome[1])
    /\ UNCHANGED denv

NextDecode ==
    \/ \E env \in DecodeEnvs : DecodeEnter(env)
    \/ DecodePrimary
    \/ DecodeTransform
    \/ DecodeStrategy

SpecDecode ==
    Init /\ [][NextDecode /\ UNCHANGED <<storeVars, sigStoreVars, captureVars,
                                         sessionVars, runVars, traverseVars,
                                         asciiVars, runAuxVars, demoVars,
                                         syncVars>>]_vars

\* the decoders in their fixed order
DecoderOrder == <<"pyzbar">> \o strategies

\* the place of a decoder in the order
PlaceOf(name) == CHOOSE i \in DOMAIN DecoderOrder : DecoderOrder[i] = name

\* what the decoder at place i of the order does in the decoding at hand
OutcomeAt(i) == IF i = 1 THEN denv.pyzbar ELSE StrategyOutcome(denv, i - 1)

\* the decoder at place i yields a non-empty text
Yields(i) == OutcomeAt(i) \notin {Raises, None} /\ OutcomeAt(i)[1] # ""

\* C31: the decoders run in the fixed order, each at most once; none runs
\* after one that yielded a non-empty text; a decoder that raises leaves the
\* content as it was and the next one runs; a strategy of the OpenCV chain
\* runs only when pyzbar recovered nothing; and at the end the content is the
\* text of the decoder run last if it yielded one, and empty otherwise.
C31_OrderedShortCircuit ==
    dpc # "idle" =>
        /\ \A i, j \in DOMAIN ran : i < j => PlaceOf(ran[i]) < PlaceOf(ran[j])
        /\ \A i \in DOMAIN ran : i < Len(ran) => ~Yields(PlaceOf(ran[i]))
        /\ (\E i \in DOMAIN ran : ran[i] # "pyzbar")
              => ~(denv.HAS_PYZBAR /\ Yields(1))
        /\ dpc = "done" =>
              /\ IF ran # <<>> /\ Yields(PlaceOf(ran[Len(ran)]))
                 THEN qr_content = OutcomeAt(PlaceOf(ran[Len(ran)]))
                 ELSE ~HasText(qr_content)
              /\ (denv.HAS_OPENCV /\ denv.setup = "ok" /\ ~HasText(qr_content))
                    => \A k \in DOMAIN strategies : \E i \in DOMAIN ran : ran[i] = strategies[k]

\* C31 witness: pyzbar found nothing, the first strategy raised, the second
\* returned no text and the third a text: the fourth and fifth did not run
C31_Witness_ThirdStrategyWins ==
    /\ dpc = "done"
    /\ ran = <<"pyzbar", "Raw", "Sharpen", "Resize 2x">>
    /\ denv.cv[1] = Raises
    /\ denv.cv[2] = Some("")
    /\ denv.cv[4] = Some("qr")
    /\ qr_content = Some("Resize 2x:qr")

(***************************************************************************)
(* client_demo.py: login_interactive from the session request to its       *)
(* return.  cpc is "idle" before the call, "show" once the session request *)
(* has brought a QR image (line 91), "poll" at the head of the status loop *)
(* (line 168), "capture" at the head of the capture loop (line 193) and    *)
(* "done" once the function has returned.                                  *)
(***************************************************************************)

\* line 165: timeout = 120
DemoTimeout == 120

\* bound: the seconds a status request may take
MaxLatency == 1

\* what check_qrcode_status may return (lines 56-66): None, or the data of
\* the response
DemoStatuses ==
    {None, Some(("code_status" :> 0)), Some(("code_status" :> 1)),
     Some(("code_status" :> 2)), Some(("qr_id" :> 1))}

\* what check_capture_status may return (lines 68-78)
DemoCaptures ==
    {None, Some(("total_count" :> 0)), Some(("is_complete" :> FALSE) @@ ("total_count" :> 3)),
     Some(("is_complete" :> TRUE) @@ ("total_count" :> 3)),
     Some(("is_complete" :> TRUE) @@ ("total_count" :> 0))}

\* lines 172-173 with a scanned code taken for a login
PollConfirmsScanned(code_status) == code_status \in {1, 2}

\* lines 172-173: code_status == 2
PollConfirms(code_status) == code_status = 2

\* lines 84-90 and 225-230: the session request; it raises, or brings a
\* response with or without a QR image
DemoStart(session) ==
    /\ cpc = "idle"
    /\ IF session = "qr"
       THEN cpc' = "show" /\ UNCHANGED demo_ret
       ELSE cpc' = "done" /\ demo_ret' = Some(FALSE)
    /\ UNCHANGED <<elapsed, last_status, last_capture, entered_capture>>

\* lines 91-166: the QR image is decoded and shown; printing it may raise,
\* which the handler of line 228 turns into a return of False
DemoShow(ok) ==
    /\ cpc = "show"
    /\ IF ok
       THEN cpc' = "poll" /\ elapsed' = 0 /\ UNCHANGED demo_ret
       ELSE cpc' = "done" /\ demo_ret' = Some(FALSE) /\ UNCHANGED elapsed
    /\ UNCHANGED <<last_status, last_capture, entered_capture>>

\* lines 168-188: one iteration of the status loop, or its end; the request
\* takes d seconds and the sleep one
DemoPoll(qr_status, d) ==
    /\ cpc = "poll"
    /\ IF elapsed < DemoTimeout
       THEN /\ last_status' = Some(qr_status)
            /\ IF qr_status # None /\ PollConfirms(Get(qr_status[1], "code_status", -1))
               THEN /\ cpc' = "capture"
                    /\ entered_capture' = TRUE
                    /\ UNCHANGED elapsed
               ELSE /\ elapsed' = elapsed + d + 1
                    /\ UNCHANGED <<cpc, entered_capture>>
            /\ UNCHANGED demo_ret
       ELSE /\ cpc' = "done"
            /\ demo_ret' = Some(FALSE)
            /\ UNCHANGED <<elapsed, last_status, entered_capture>>
    /\ UNCHANGED last_capture

\* lines 193-224: one iteration of the capture loop
DemoCapture(capture_data) ==
    /\ cpc = "capture"
    /\ last_capture' = Some(capture_data)
    /\ IF capture_data # None /\ Get(capture_data[1], "is_complete", FALSE)
       THEN /\ cpc' = "done"
            /\ demo_ret' = Some(Get(capture_data[1], "total_count", 0) > 0)
       ELSE UNCHANGED <<cpc, demo_ret>>
    /\ UNCHANGED <<elapsed, last_status, entered_capture>>

NextDemo ==
    \/ \E session \in {"raises", "no_qr", "qr"} : DemoStart(session)
    \/ \E ok \in BOOLEAN : DemoShow(ok)
    \/ \E qr_status \in DemoStatuses, d \in 0..MaxLatency : DemoPoll(qr_status, d)
    \/ \E capture_data \in DemoCaptures : DemoCapture(capture_data)

SpecDemo ==
    Init /\ [][NextDemo /\ UNCHANGED <<storeVars, sigStoreVars, captureVars,
                                       sessionVars, runVars, traverseVars,
                                       asciiVars, runAuxVars, decodeVars,
                                       syncVars>>]_vars

\* the last status poll reported the confirmed code
ConfirmedReported ==
    /\ last_status # None
    /\ last_status[1] # None
    /\ Get(last_status[1][1], "code_status", -1) = 2

\* the last capture poll reported the capture complete
CompleteReported ==
    /\ last_capture # None
    /\ last_capture[1] # None
    /\ Get(last_capture[1][1], "is_complete", FALSE)

SyncCookiesRequest(web_session, cookies, target) ==
    [web_session |-> web_session, cookies |-> cookies, target |-> target]

\* the requests the endpoint may receive
SyncRequests ==
    {SyncCookiesRequest(w, c, t) :
        w \in {None, Some(""), Some("ws1")},
        c \in {None, Some(EmptyDict), Some(("a1" :> "dev1")),
               Some(("web_session" :> "ws2"))},
        t \in {"explore", "creator"}}

\* lines 241-245: cookies_to_inject
CookiesToInject(request) ==
    LET base == IF request.web_session # None /\ request.web_session[1] # ""
                THEN ("web_session" :> request.web_session[1]) ELSE EmptyDict
    IN  IF request.cookies # None /\ DOMAIN request.cookies[1] # {}
        THEN request.cookies[1] @@ base
        ELSE base

\* lines 73-77: GuestCookiesResponse
GuestCookiesResponse(success, cookies, error) ==
    [success |-> success, cookies |-> cookies, error |-> error]

\* lines 298-303 without the call of quit
AfterFinallyNoQuit(d, quit_ok) == d

\* lines 298-303: the driver after the finally clause; what quit raises is
\* swallowed
AfterFinally(d, quit_ok) ==
    IF d = "running" THEN (IF quit_ok THEN "quit" ELSE "quit_raised") ELSE d

\* lines 234-248: the call starts; without cookies it returns at once
SyncEnter(request) ==
    /\ spc = "idle"
    /\ sync_request' = request
    /\ IF DOMAIN CookiesToInject(request) = {}
       THEN /\ spc' = "done"
            /\ sync_response' = Some(GuestCookiesResponse(FALSE, None,
                                    Some("Missing cookies (web_session or cookies dict)")))
       ELSE /\ spc' = "start"
            /\ UNCHANGED sync_response
    /\ UNCHANGED <<driver, driver_cookies>>

\* a statement of the try block raised: lines 295-297
SyncFailed(message) ==
    /\ spc' = "finally"
    /\ sync_response' = Some(GuestCookiesResponse(FALSE, None, Some(message)))

\* lines 250-262: the options, the driver path and the driver
SyncStart(ok) ==
    /\ spc = "start"
    /\ IF ok
       THEN /\ driver' = "running"
            /\ spc' = "init"
            /\ UNCHANGED sync_response
       ELSE SyncFailed("chrome not reachable") /\ UNCHANGED driver
    /\ UNCHANGED <<sync_request, driver_cookies>>

\* lines 265-266: the page that sets the domain
SyncInit(ok) ==
    /\ spc = "init"
    /\ IF ok
       THEN spc' = "cookies" /\ UNCHANGED sync_response
       ELSE SyncFailed("net::ERR_CONNECTION_RESET")
    /\ UNCHANGED <<sync_request, driver, driver_cookies>>

\* lines 269-275: the cookies are added; a call of add_cookie may raise
SyncAddCookies(ok) ==
    /\ spc = "cookies"
    /\ IF ok
       THEN /\ driver_cookies' = CookiesToInject(sync_request)
            /\ spc' = "navigate"
            /\ UNCHANGED sync_response
       ELSE /\ SyncFailed("unable to set cookie")
            /\ UNCHANGED driver_cookies
    /\ UNCHANGED <<sync_request, driver>>

\* lines 278-293: the target is loaded, the site adds its cookies and the
\* cookies of the browser are the response
SyncNavigate(ok, site_cookies) ==
    /\ spc = "navigate"
    /\ IF ok
       THEN /\ driver_cookies' = site_cookies @@ driver_cookies
            /\ sync_response' =
                   Some(GuestCookiesResponse(TRUE, Some(site_cookies @@ driver_cookies), None))
            /\ spc' = "finally"
       ELSE /\ SyncFailed("timeout: page load")
            /\ UNCHANGED driver_cookies
    /\ UNCHANGED <<sync_request, driver>>

\* lines 298-303: the finally clause and the return
SyncFinally(quit_ok) ==
    /\ spc = "finally"
    /\ driver' = AfterFinally(driver, quit_ok)
    /\ spc' = "done"
    /\ UNCHANGED <<sync_request, driver_cookies, sync_response>>

NextSync ==
    \/ \E request \in SyncRequests : SyncEnter(request)
    \/ \E ok \in BOOLEAN : SyncStart(ok)
    \/ \E ok \in BOOLEAN : SyncInit(ok)
    \/ \E ok \in BOOLEAN : SyncAddCookies(ok)
    \/ \E ok \in BOOLEAN, site_cookies \in {EmptyDict, ("a1" :> "site1"), ("webId" :> "w1")} :
           SyncNavigate(ok, site_cookies)
    \/ \E quit_ok \in BOOLEAN : SyncFinally(quit_ok)

SpecSync ==
    Init /\ [][NextSync /\ UNCHANGED <<storeVars, sigStoreVars, captureVars,
                                       sessionVars, runVars, traverseVars,
                                       asciiVars, runAuxVars, decodeVars,
                                       demoVars>>]_vars

\* the request at hand supplies neither a web_session nor a cookie
NothingSupplied ==
    /\ sync_request.web_session \in {None, Some("")}
    /\ sync_request.cookies \in {None, Some(EmptyDict)}

\* C39: a call without a web_session and without cookies returns a failure
\* and never has a driver; and whenever the response is returned the driver,
\* if one was started, has had quit() called on it.
C39_NoDriverLeftRunning ==
    /\ (spc # "idle" /\ NothingSupplied)
          => /\ spc = "done"
             /\ driver = "none"
             /\ sync_response # None
             /\ sync_response[1].success = FALSE
    /\ spc \in {"init", "cookies", "navigate"} => driver = "running"
    /\ spc = "done" => /\ sync_response # None
                       /\ driver \in {"none", "quit", "quit_raised"}
                       /\ sync_response[1].success => driver # "none"

\* C39 witness: the load of the target page raised after the cookies were
\* added; the failure was returned and the driver had been quit
C39_Witness_QuitAfterException ==
    /\ spc = "done"
    /\ driver = "quit"
    /\ driver_cookies = ("web_session" :> "ws1")
    /\ sync_response = Some(GuestCookiesResponse(FALSE, None, Some("timeout: page load")))

====
